---- MODULE Spec2Model ----
(***************************************************************************)
(* docsrv: the release index (projectIndex) and the request handlers of    *)
(* Service (ServeHTTP, ensureIndexed, indexProject, prepareVersion, ...).  *)
(* Every critical section of projectIndex (one Lock/Unlock pair) is one    *)
(* atomic step; a handler is the sequence of its critical sections and of  *)
(* its blocking calls (release fetch, directory creation, build).          *)
(***************************************************************************)
EXTENDS Integers, Sequences, FiniteSets, TLC

(* ------------------------------ bounds -------------------------------- *)

\* number of requests served concurrently (goroutines inside ServeHTTP)
NumSlots == 2
\* last instant of the clock
MaxTime == 2

(* ---------------------------- data universe --------------------------- *)

Slots == 1..NumSlots
Refresher == NumSlots + 1
Procs == Slots \cup {Refresher}

\* latestVersionLifetime (1 hour), in clock ticks
latestVersionLifetime == 1

RefreshToken == "refresh"

Rel(t) == [tag |-> t, url |-> "tarball/" \o t]
NoRelease == [tag |-> "", url |-> ""]

\* Release lists the upstream can hold; the fetcher returns them sorted
\* ascending by version.
UpstreamLists ==
    { <<>>,
      <<Rel("v1.0.0")>>,
      <<Rel("v1.0.0"), Rel("v2.0.0")>> }

\* semver.NewVersion on the strings of the universe: the version triple of
\* a string that parses, <<>> for one that does not.
ParseVersion(s) ==
    CASE s = "v1.0.0" -> <<1, 0, 0>>
      [] s = "v1.1.0" -> <<1, 1, 0>>
      [] s = "v2.0.0" -> <<2, 0, 0>>
      [] s = "2.0.0"  -> <<2, 0, 0>>
      [] OTHER        -> <<>>

IsSemver(s) == ParseVersion(s) # <<>>

\* the tags of the universe
Versions == {"v1.0.0", "v1.1.0", "v2.0.0"}

\* semver.Version.LessThan on parsed triples
TripleLess(a, b) ==
    \/ a[1] < b[1]
    \/ a[1] = b[1] /\ a[2] < b[2]
    \/ a[1] = b[1] /\ a[2] = b[2] /\ a[3] < b[3]

\* newVersion(v1).LessThan(newVersion(v2)) on tags that parse
LessThan(v1, v2) == TripleLess(ParseVersion(v1), ParseVersion(v2))

\* Config: host -> repository, as strings.Split(proj.Repository, "/") gives
\* it: "acme/widget", "acme/gadget", "acme/legacy", "acme" and "acme/b/ar"
Config ==
    [ h \in {"widget.example.com", "gadget.example.com", "legacy.example.com",
             "broken.example.com", "deep.example.com"} |->
        CASE h = "widget.example.com" -> <<"acme", "widget">>
          [] h = "gadget.example.com" -> <<"acme", "gadget">>
          [] h = "legacy.example.com" -> <<"acme", "legacy">>
          [] h = "broken.example.com" -> <<"acme">>
          [] OTHER                    -> <<"acme", "b", "ar">> ]

\* ProjectConfig.MinVersion of every host of the configuration, "" for a
\* host configured without one
MinVersion ==
    [ h \in DOMAIN Config |->
        IF h = "legacy.example.com" THEN "v1.1.0" ELSE "" ]

\* r.Host of the requests: mapped hosts, a host with no mapping, and a
\* mapped host followed by a port
Hosts ==
    DOMAIN Config \cup {"other.example.com", "widget.example.com:9090"}

ProjectForHost(host) ==
    IF host \in DOMAIN Config /\ Len(Config[host]) = 2
    THEN [ok |-> TRUE, key |-> Config[host]]
    ELSE [ok |-> FALSE, key |-> <<"", "">>]

\* the projects the configuration names
ProjectKeys == { ProjectForHost(h).key : h \in { x \in Hosts : ProjectForHost(x).ok } }

\* Config.MinVersionForHost: the minimum version of the host, "" (nil) for
\* a host with no mapping or no minimum version
MinVersionForHost(host) ==
    IF host \in DOMAIN Config THEN MinVersion[host] ELSE ""

\* index.minVersion: the minimum version configured for the project, ""
\* (nil) for none
minVersion(key) ==
    IF \E h \in DOMAIN Config : ProjectForHost(h).ok /\ ProjectForHost(h).key = key
    THEN MinVersionForHost(CHOOSE h \in DOMAIN Config :
                             ProjectForHost(h).ok /\ ProjectForHost(h).key = key)
    ELSE ""

\* the project whose releases change upstream in the specifications that
\* serve one project
WidgetKeys == { <<"acme", "widget">> }

\* newKey joins its arguments with "/"; no component of a key built by the
\* handlers contains "/", so the key is the tuple of its components.
newKey(strs) == strs

\* A URL path "/s1/s2/.../sn" is the sequence of its segments; the last
\* segment is "" when the path ends with "/".
Paths ==
    { <<"versions.json">>,
      <<"latest", "">>,
      <<"v1.0.0", "guide.html">>,
      <<"v2.0.0", "guide.html">>,
      <<"guide.html">> }

URL(h, p, t) == [host |-> h, path |-> p, token |-> t]

\* the requests sent to the service that has the refresh token
Requests ==
    { URL("widget.example.com", <<"v1.0.0", "guide.html">>, ""),
      URL("widget.example.com", <<"v2.0.0", "guide.html">>, ""),
      URL("widget.example.com", <<"v2.0.0", "guide.html">>, "refresh"),
      URL("other.example.com", <<"v1.0.0", "guide.html">>, "") }

\* the requests sent to the service that has the latest-version cache
CacheRequests ==
    { URL("widget.example.com", <<"latest", "">>, ""),
      URL("widget.example.com", <<"v1.0.0", "guide.html">>, ""),
      URL("widget.example.com", <<"v2.0.0", "guide.html">>, "") }

NoRequest == URL("", <<>>, "")

RECURSIVE TrimLeftSlash(_)
TrimLeftSlash(segs) ==
    IF segs # <<>> /\ Head(segs) = "" /\ Len(segs) > 1
    THEN TrimLeftSlash(Tail(segs))
    ELSE segs

\* strings.Split(strings.TrimLeft(r.URL.Path, "/"), "/")[0]
versionFromReq(r) ==
    LET t == TrimLeftSlash(r.path)
    IN  IF t = <<>> THEN "" ELSE Head(t)

(* ------------------------------ responses ----------------------------- *)

\* the body of a response: nothing written, or the bytes of json.Marshal,
\* which are "null" for a nil slice and an array otherwise
NoBody == [kind |-> "none", items |-> <<>>]

NoResponse == [status |-> 0, location |-> NoRequest, body |-> NoBody]

Redirect(url) == [status |-> 307, location |-> url, body |-> NoBody]

\* notFound: 307 to <scheme>://<host>/404/
notFound(r) == Redirect(URL(r.host, <<"404", "">>, ""))

\* internalError: 307 to <scheme>://<host>/500/
internalError(r) == Redirect(URL(r.host, <<"500", "">>, ""))

\* notFound and internalError of the service with the latest-version cache:
\* 307 to /404.html and /500.html
notFoundPage(r) == Redirect(URL("", <<"404.html">>, ""))

internalErrorPage(r) == Redirect(URL("", <<"500.html">>, ""))

\* w.WriteHeader(http.StatusNotFound)
bareNotFound == [status |-> 404, location |-> NoRequest, body |-> NoBody]

\* a redirect that keeps the path and loses the query string
redirectPathOnly(r) == Redirect(URL(r.host, r.path, ""))

\* http.Redirect(w, r, r.URL.String(), 307): path and raw query re-encoded
redirectSame(r) == Redirect(URL(r.host, r.path, r.token))

(* --------------------------- Go maps ---------------------------------- *)

\* A Go map is a function whose domain is the set of keys present.
EmptyMap == [k \in {} |-> 0]

MapPut(m, k, v) == [x \in DOMAIN m \cup {k} |-> IF x = k THEN v ELSE m[x]]

(* ------------------------------- state -------------------------------- *)

VARIABLES
    projects,        \* projectIndex.projects: key -> release list
    releases,        \* projectIndex.releases: key/tag -> release
    latestVersions,  \* projectIndex.latestVersions: key -> (cachedAt, version)
    installed,       \* projectIndex.installed: set of key/version
    now,             \* the clock read by time.Now()
    upstream,        \* what the release fetcher would return, per project
    revision,        \* which revision of Service is running
    pc,              \* position of every request goroutine and of the refresher
    req,             \* the request a slot is serving
    loc,             \* locals of the handler a process is running
    resp,            \* the response written by a slot
    todo,            \* refreshIndex: project keys still to refresh in this pass
    cancelled,       \* ctx.Done() of ManageIndex has fired
    built            \* key/version triples for which buildDocs returned nil

vars == <<projects, releases, latestVersions, installed, now, upstream,
          revision, pc, req, loc, resp, todo, cancelled, built>>

\* failed: what the goroutine has logged at error level: the project keys
\* for which refreshIndex logged "error refreshing project" in the pass it
\* is running, <<"panic">> for "recovered from panic"
\* tmpDir: the temporary directory of buildDocs: "" before ioutil.TempDir,
\* "created", then "removed" or "kept" once os.RemoveAll has been called
\* ops: when the calls of a goroutine are followed lock by lock, the Lock,
\* Unlock and blocking calls it has still to make; held: the mutexes of
\* the index it holds
NoLocals ==
    [key |-> <<"", "">>, version |-> "", fetched |-> <<>>,
     release |-> NoRelease, sawInstalled |-> FALSE, ret |-> "",
     failed |-> {}, tmpDir |-> "", ops |-> <<>>, held |-> {}]

\* the state after New(opts) of the given revision of Service
InitOf(rev) ==
    /\ revision = rev
    /\ projects = EmptyMap
    /\ releases = EmptyMap
    /\ latestVersions = EmptyMap
    /\ installed = {}
    /\ now = 0
    /\ upstream = [k \in ProjectKeys |-> <<Rel("v1.0.0"), Rel("v2.0.0")>>]
    /\ pc = [p \in Procs |-> IF p = Refresher THEN "wait" ELSE "idle"]
    /\ req = [s \in Slots |-> NoRequest]
    /\ loc = [p \in Procs |-> NoLocals]
    /\ resp = [s \in Slots |-> NoResponse]
    /\ todo = <<>>
    /\ cancelled = FALSE
    /\ built = {}

\* the revision of Service with the refresh token (and no latest-version
\* cache) and the one with the latest-version cache (and no refresh token)
WithToken == "token"
WithCache == "cache"
\* the revision with the refresh token, constructed with an empty
\* Options.RefreshToken
WithoutSecret == "nosecret"

\* s.opts.RefreshToken of the running service
optsRefreshToken == IF revision = WithToken THEN RefreshToken ELSE ""

Init == InitOf(WithToken)

InitCache == InitOf(WithCache)

\* notFound and internalError of the running revision
NotFound(r) == IF revision # WithCache THEN notFound(r) ELSE notFoundPage(r)

InternalError(r) ==
    IF revision # WithCache THEN internalError(r) ELSE internalErrorPage(r)

(* --------------------------- projectIndex ----------------------------- *)

\* a set that appends to the list already stored
setProjectsAppend(key, rels) ==
    MapPut(projects, newKey(key),
           (IF newKey(key) \in DOMAIN projects THEN projects[newKey(key)]
            ELSE <<>>) \o rels)

\* a set that keeps the list a key already has
setProjectsOnce(key, rels) ==
    IF newKey(key) \in DOMAIN projects THEN projects
    ELSE MapPut(projects, newKey(key), rels)

\* set, first critical section (projectsMut): p.projects[key] = releases
setProjects(key, rels) == MapPut(projects, newKey(key), rels)

RECURSIVE putAll(_, _, _)
putAll(m, key, rels) ==
    IF rels = <<>> THEN m
    ELSE putAll(MapPut(m, newKey(Append(key, Head(rels).tag)), Head(rels)),
                key, Tail(rels))

\* set, second critical section (releasesMut): p.releases[key/tag] = r for
\* every r of the list; no entry is deleted
setReleases(key, rels) == putAll(releases, key, rels)

\* get: the release stored under key/version, NoRelease for Go's nil
get(key, version) ==
    LET k == newKey(Append(key, version))
    IN  IF k \in DOMAIN releases THEN releases[k] ELSE NoRelease

\* forProject: the list stored under key, the empty list for none
forProject(key) ==
    IF newKey(key) \in DOMAIN projects THEN projects[newKey(key)] ELSE <<>>

\* an isIndexed that wants a release in the list
isIndexedNonEmpty(key) ==
    newKey(key) \in DOMAIN projects /\ projects[newKey(key)] # <<>>

isIndexed(key) == newKey(key) \in DOMAIN projects

\* getProjects: the keys of p.projects
getProjects == DOMAIN projects

\* an entry that is still valid at the instant cachedAt + lifetime
isExpiredInclusive(v) == v.cachedAt + latestVersionLifetime >= now

\* latestVersion.isExpired: cachedAt + lifetime is after now (the entry is
\* still valid when this is true)
isExpired(v) == v.cachedAt + latestVersionLifetime > now

\* the zero value read from the map for a missing key (cachedAt = year 1)
ZeroLatest == [cachedAt |-> 0 - latestVersionLifetime - 1, version |-> ""]

latestVersion(key) ==
    LET v == IF newKey(key) \in DOMAIN latestVersions
             THEN latestVersions[newKey(key)] ELSE ZeroLatest
    IN  IF isExpired(v) THEN [version |-> v.version, ok |-> TRUE]
        ELSE [version |-> "", ok |-> FALSE]

\* a setLatestVersion that keeps the time of the entry it replaces
setLatestVersionKeepsTime(key, version) ==
    MapPut(latestVersions, newKey(key),
           [cachedAt |-> IF newKey(key) \in DOMAIN latestVersions
                         THEN latestVersions[newKey(key)].cachedAt ELSE now,
            version |-> version])

setLatestVersion(key, version) ==
    MapPut(latestVersions, newKey(key), [cachedAt |-> now, version |-> version])

isInstalled(key, version) == newKey(Append(key, version)) \in installed

\* an install that starts the set again
installAlone(key, version) == {newKey(Append(key, version))}

install(key, version) == installed \cup {newKey(Append(key, version))}

(* ----------------------------- ServeHTTP ------------------------------ *)

\* the handler ServeHTTP dispatches to
Route(r) ==
    IF r.path = <<"versions.json">> THEN "list"
    ELSE IF Len(r.path) >= 2 /\ Head(r.path) = "latest" THEN "latest"
    ELSE "prepare"

\* where a handler continues once ensureIndexed has returned nil
AfterIndex(r) ==
    CASE Route(r) = "list"   -> "list"
      [] Route(r) = "latest" -> "latestRead"
      [] OTHER               -> "isInstalled"

Finish(s, response) ==
    /\ resp' = [resp EXCEPT ![s] = response]
    /\ pc' = [pc EXCEPT ![s] = "done"]
    /\ loc' = [loc EXCEPT ![s] = NoLocals]

\* projectNameFromReq: the first label of the host
projectNameFromReq(r) ==
    CASE r.host = "widget.example.com"      -> "widget"
      [] r.host = "widget.example.com:9090" -> "widget"
      [] r.host = "gadget.example.com"      -> "gadget"
      [] r.host = "legacy.example.com"      -> "legacy"
      [] r.host = "broken.example.com"      -> "broken"
      [] r.host = "deep.example.com"        -> "deep"
      [] r.host = "other.example.com"       -> "other"
      [] OTHER                              -> r.host

DefaultOwner == "acme"

\* projectInfo: the mapping of the host, else the default owner and the
\* first label of the host
projectInfo(r) ==
    IF ProjectForHost(r.host).ok THEN ProjectForHost(r.host)
    ELSE [ok |-> TRUE, key |-> <<DefaultOwner, projectNameFromReq(r)>>]

\* a request arrives: ServeHTTP picks the handler, the handler resolves the
\* project of the host
Start(s, r) ==
    /\ pc[s] \in {"idle", "done"}
    /\ req' = [req EXCEPT ![s] = r]
    /\ LET pf == IF revision # WithCache THEN ProjectForHost(r.host)
                 ELSE projectInfo(r)
       IN  IF ~pf.ok
           THEN /\ resp' = [resp EXCEPT ![s] = NotFound(r)]
                /\ pc' = [pc EXCEPT ![s] = "done"]
                /\ loc' = [loc EXCEPT ![s] = NoLocals]
           ELSE /\ resp' = [resp EXCEPT ![s] = NoResponse]
                /\ pc' = [pc EXCEPT ![s] =
                            IF Route(r) = "latest" /\ revision = WithCache
                            THEN "latestCache" ELSE "ensure"]
                /\ loc' = [loc EXCEPT ![s] =
                            [NoLocals EXCEPT !.key = pf.key,
                                             !.version = versionFromReq(r)]]
    /\ UNCHANGED <<projects, releases, latestVersions, installed, now, upstream,
                   revision, todo, cancelled, built>>

\* sort.Sort(byTag(result)): ascending by semantic version
RECURSIVE InsertByTag(_, _)
InsertByTag(r, sorted) ==
    IF sorted = <<>> THEN <<r>>
    ELSE IF LessThan(r.tag, Head(sorted).tag) THEN <<r>> \o sorted
    ELSE <<Head(sorted)>> \o InsertByTag(r, Tail(sorted))

RECURSIVE SortByTag(_)
SortByTag(rels) ==
    IF rels = <<>> THEN <<>>
    ELSE InsertByTag(Head(rels), SortByTag(Tail(rels)))

\* a fetcher that drops no release
belowMinNever(tag, min) == FALSE

\* fetcher.releases: whether a release is skipped for the minimum version
belowMin(tag, min) == min # "" /\ LessThan(tag, min)

\* the releases of the list that are not below the minimum version
dropBelow(rels, min) ==
    LET Keep(r) == ~belowMin(r.tag, min)
    IN  SelectSeq(rels, Keep)

\* a fetcher that returns the releases in the order upstream lists them
fetchedUnsorted(key) ==
    IF key \in DOMAIN upstream
    THEN dropBelow(upstream[key], minVersion(key))
    ELSE <<>>

\* a fetch that returns the newest release only
fetchedNewest(key) ==
    LET l == SortByTag(dropBelow(upstream[key], minVersion(key)))
    IN  IF l = <<>> THEN <<>> ELSE <<l[Len(l)]>>

\* indexProject's call of fetcher.releases(owner, project, minVersion) when
\* it succeeds: the upstream releases of the project that are not below the
\* minimum version, sorted by tag; no release for a project the upstream
\* does not have
fetched(key) ==
    IF key \in DOMAIN upstream
    THEN SortByTag(dropBelow(upstream[key], minVersion(key)))
    ELSE <<>>

\* an ensureIndexed that refreshes for any token that is not empty
mustIndexAnyToken(refreshToken, key) ==
    refreshToken # "" \/ ~isIndexed(key)

\* an ensureIndexed that ignores the token
mustIndexUnindexedOnly(refreshToken, key) == ~isIndexed(key)

\* an ensureIndexed that always fetches
mustIndexAlways(refreshToken, key) == TRUE

\* ensureIndexed: whether the project is fetched again
mustIndex(refreshToken, key) ==
    \/ refreshToken # "" /\ refreshToken = optsRefreshToken
    \/ ~isIndexed(key)

\* an ensureIndexed that records a project whose fetch failed as indexed
\* with no release
EnsureStoresFailure(s) ==
    /\ pc[s] = "ensure"
    /\ IF mustIndex(IF revision # WithCache THEN req[s].token ELSE "",
                    loc[s].key)
       THEN \E fetchOk \in BOOLEAN :
              IF fetchOk
              THEN /\ loc' = [loc EXCEPT ![s].fetched = fetched(loc[s].key),
                                          ![s].ret = AfterIndex(req[s])]
                   /\ pc' = [pc EXCEPT ![s] = "setProjects"]
                   /\ UNCHANGED <<resp, projects>>
              ELSE /\ Finish(s, InternalError(req[s]))
                   /\ projects' = setProjects(loc[s].key, <<>>)
       ELSE /\ pc' = [pc EXCEPT ![s] = AfterIndex(req[s])]
            /\ UNCHANGED <<loc, resp, projects>>
    /\ UNCHANGED <<releases, latestVersions, installed, now, upstream,
                   revision, req, todo, cancelled, built>>

\* ensureIndexed up to the return of fetcher.releases in indexProject
Ensure(s) ==
    /\ pc[s] = "ensure"
    /\ IF mustIndex(IF revision # WithCache THEN req[s].token ELSE "",
                    loc[s].key)
       THEN \E fetchOk \in BOOLEAN :
              IF fetchOk
              THEN /\ loc' = [loc EXCEPT ![s].fetched = fetched(loc[s].key),
                                          ![s].ret = AfterIndex(req[s])]
                   /\ pc' = [pc EXCEPT ![s] = "setProjects"]
                   /\ UNCHANGED resp
              ELSE Finish(s, InternalError(req[s]))
       ELSE /\ pc' = [pc EXCEPT ![s] = AfterIndex(req[s])]
            /\ UNCHANGED <<loc, resp>>
    /\ UNCHANGED <<projects, releases, latestVersions, installed, now, upstream,
                   revision, req, todo, cancelled, built>>

\* an ensureIndexed that calls indexProject whatever isIndexed returns
EnsureCheckAlways(s) ==
    /\ pc[s] = "ensure"
    /\ pc' = [pc EXCEPT ![s] = "fetch"]
    /\ UNCHANGED <<projects, releases, latestVersions, installed, now, upstream,
                   revision, req, loc, resp, todo, cancelled, built>>

\* ensureIndexed taken step by step: the test of the token and isIndexed,
\* up to the call of fetcher.releases in indexProject
EnsureCheck(s) ==
    /\ pc[s] = "ensure"
    /\ pc' = [pc EXCEPT ![s] =
                IF mustIndex(IF revision # WithCache THEN req[s].token ELSE "",
                             loc[s].key)
                THEN "fetch" ELSE AfterIndex(req[s])]
    /\ UNCHANGED <<projects, releases, latestVersions, installed, now, upstream,
                   revision, req, loc, resp, todo, cancelled, built>>

\* fetcher.releases returns to indexProject: an error, which ends the
\* request, or the releases upstream holds now, which go to index.set
FetchReturn(s) ==
    /\ pc[s] = "fetch"
    /\ \E fetchOk \in BOOLEAN :
         IF fetchOk
         THEN /\ loc' = [loc EXCEPT ![s].fetched = fetched(loc[s].key),
                                     ![s].ret = AfterIndex(req[s])]
              /\ pc' = [pc EXCEPT ![s] = "setProjects"]
              /\ UNCHANGED resp
         ELSE Finish(s, InternalError(req[s]))
    /\ UNCHANGED <<projects, releases, latestVersions, installed, now, upstream,
                   revision, req, todo, cancelled, built>>

\* index.set, first critical section
SetProjects(p) ==
    /\ pc[p] = "setProjects"
    /\ projects' = setProjects(loc[p].key, loc[p].fetched)
    /\ pc' = [pc EXCEPT ![p] = "setReleases"]
    /\ UNCHANGED <<releases, latestVersions, installed, now, upstream,
                   revision, req, loc, resp, todo, cancelled, built>>

\* index.set, second critical section, and the return of indexProject
SetReleases(p) ==
    /\ pc[p] = "setReleases"
    /\ releases' = setReleases(loc[p].key, loc[p].fetched)
    /\ pc' = [pc EXCEPT ![p] = loc[p].ret]
    /\ loc' = [loc EXCEPT ![p].fetched = <<>>, ![p].ret = ""]
    /\ UNCHANGED <<projects, latestVersions, installed, now, upstream,
                   revision, req, resp, todo, cancelled, built>>

(* --------------------------- prepareVersion --------------------------- *)

\* a bare 404 for every installed version
installedResponseBare(r, version) == bareNotFound

\* the response of prepareVersion for a version that is installed
installedResponse(r, version) ==
    IF ~IsSemver(version) THEN bareNotFound ELSE NotFound(r)

\* a handler that goes on whatever isInstalled returned
neverStops(wasInstalled) == FALSE

\* whether prepareVersion returns early after its isInstalled check
stopsWhenInstalled(wasInstalled) == wasInstalled

CheckInstalled(s) ==
    /\ pc[s] = "isInstalled"
    /\ LET was == isInstalled(loc[s].key, loc[s].version)
       IN  IF stopsWhenInstalled(was)
           THEN Finish(s, installedResponse(req[s], loc[s].version))
           ELSE /\ loc' = [loc EXCEPT ![s].sawInstalled = was]
                /\ pc' = [pc EXCEPT ![s] = "get"]
                /\ UNCHANGED resp
    /\ UNCHANGED <<projects, releases, latestVersions, installed, now, upstream,
                   revision, req, todo, cancelled, built>>

\* a handler that does not test the release returned by index.get
GetReleaseUnchecked(s) ==
    /\ pc[s] = "get"
    /\ loc' = [loc EXCEPT ![s].release = get(loc[s].key, loc[s].version),
                          ![s].ret = IF revision = WithCache
                                     THEN "mkdir" ELSE ""]
    /\ pc' = [pc EXCEPT ![s] = IF revision = WithCache THEN "trySet" ELSE "mkdir"]
    /\ UNCHANGED <<projects, releases, latestVersions, installed, now, upstream,
                   revision, req, resp, todo, cancelled, built>>

\* a prepareVersion that creates the directory before it calls trySet
GetReleaseThenMkdir(s) ==
    /\ pc[s] = "get"
    /\ LET release == get(loc[s].key, loc[s].version)
       IN  IF release = NoRelease
           THEN Finish(s, NotFound(req[s]))
           ELSE /\ loc' = [loc EXCEPT ![s].release = release]
                /\ pc' = [pc EXCEPT ![s] = "mkdir"]
                /\ UNCHANGED resp
    /\ UNCHANGED <<projects, releases, latestVersions, installed, now, upstream,
                   revision, req, todo, cancelled, built>>

GetRelease(s) ==
    /\ pc[s] = "get"
    /\ LET release == get(loc[s].key, loc[s].version)
       IN  IF release = NoRelease
           THEN Finish(s, NotFound(req[s]))
           ELSE /\ loc' = [loc EXCEPT ![s].release = release,
                                       ![s].ret = IF revision = WithCache
                                                  THEN "mkdir" ELSE ""]
                /\ pc' = [pc EXCEPT ![s] =
                            IF revision = WithCache THEN "trySet" ELSE "mkdir"]
                /\ UNCHANGED resp
    /\ UNCHANGED <<projects, releases, latestVersions, installed, now, upstream,
                   revision, req, todo, cancelled, built>>

\* a trySet that also writes when latestVersion returned no entry
shouldSetWithoutEntry(cur, version) ==
    ~cur.ok \/ LessThan(cur.version, version)

\* a trySet that also writes a version equal to the cached one
shouldSetOrEqual(cur, version) == cur.ok /\ ~LessThan(version, cur.version)

\* trySetLatestVersion: the decision taken from what latestVersion returned
shouldSetLatest(cur, version) == cur.ok /\ LessThan(cur.version, version)

\* trySetLatestVersion, first critical section (latestVersion)
TrySetRead(s) ==
    /\ pc[s] = "trySet"
    /\ IF shouldSetLatest(latestVersion(loc[s].key), loc[s].release.tag)
       THEN /\ pc' = [pc EXCEPT ![s] = "trySetWrite"]
            /\ UNCHANGED loc
       ELSE /\ pc' = [pc EXCEPT ![s] = loc[s].ret]
            /\ loc' = [loc EXCEPT ![s].ret = ""]
    /\ UNCHANGED <<projects, releases, latestVersions, installed, now, upstream,
                   revision, req, resp, todo, cancelled, built>>

\* trySetLatestVersion, second critical section (setLatestVersion)
TrySetWrite(s) ==
    /\ pc[s] = "trySetWrite"
    /\ latestVersions' = setLatestVersion(loc[s].key, loc[s].release.tag)
    /\ pc' = [pc EXCEPT ![s] = loc[s].ret]
    /\ loc' = [loc EXCEPT ![s].ret = ""]
    /\ UNCHANGED <<projects, releases, installed, now, upstream,
                   revision, req, resp, todo, cancelled, built>>

\* a handler that enters buildDocs only when no other request is inside
\* buildDocs for the same project and version
MkdirSingleBuild(s) ==
    /\ pc[s] = "mkdir"
    /\ \A t \in Slots \ {s} :
         ~(pc[t] = "build" /\ loc[t].key = loc[s].key
                           /\ loc[t].version = loc[s].version)
    /\ \E mkdirOk \in BOOLEAN :
         IF mkdirOk
         THEN /\ pc' = [pc EXCEPT ![s] = "build"]
              /\ UNCHANGED <<loc, resp>>
         ELSE Finish(s, InternalError(req[s]))
    /\ UNCHANGED <<projects, releases, latestVersions, installed, now, upstream,
                   revision, req, todo, cancelled, built>>

\* os.MkdirAll(destination); on success buildDocs is entered
Mkdir(s) ==
    /\ pc[s] = "mkdir"
    /\ \E mkdirOk \in BOOLEAN :
         IF mkdirOk
         THEN /\ pc' = [pc EXCEPT ![s] = "build"]
              /\ UNCHANGED <<loc, resp>>
         ELSE Finish(s, InternalError(req[s]))
    /\ UNCHANGED <<projects, releases, latestVersions, installed, now, upstream,
                   revision, req, todo, cancelled, built>>

\* a handler that ignores the error of buildDocs
installsAlways(buildOk) == TRUE

\* whether prepareVersion goes on to install after buildDocs returned
installsAfterBuild(buildOk) == buildOk

\* a handler that remembers a failed build: the version is recorded in the
\* install set although buildDocs returned an error
BuildReturnMarksFailed(s) ==
    /\ pc[s] = "build"
    /\ \E buildOk \in BOOLEAN :
         /\ built' = IF buildOk
                     THEN built \cup {newKey(Append(loc[s].key, loc[s].version))}
                     ELSE built
         /\ IF installsAfterBuild(buildOk)
            THEN /\ pc' = [pc EXCEPT ![s] = "install"]
                 /\ UNCHANGED <<loc, resp, installed>>
            ELSE /\ Finish(s, InternalError(req[s]))
                 /\ installed' = install(loc[s].key, loc[s].version)
    /\ UNCHANGED <<projects, releases, latestVersions, now, upstream,
                   revision, req, todo, cancelled>>

\* buildDocs returns
BuildReturn(s) ==
    /\ pc[s] = "build"
    /\ \E buildOk \in BOOLEAN :
         /\ built' = IF buildOk
                     THEN built \cup {newKey(Append(loc[s].key, loc[s].version))}
                     ELSE built
         /\ IF installsAfterBuild(buildOk)
            THEN /\ pc' = [pc EXCEPT ![s] = "install"]
                 /\ UNCHANGED <<loc, resp>>
            ELSE Finish(s, InternalError(req[s]))
    /\ UNCHANGED <<projects, releases, latestVersions, installed, now, upstream,
                   revision, req, todo, cancelled>>

\* index.install and the redirect to the requested URL
Install(s) ==
    /\ pc[s] = "install"
    /\ installed' = install(loc[s].key, loc[s].version)
    /\ Finish(s, redirectSame(req[s]))
    /\ UNCHANGED <<projects, releases, latestVersions, now, upstream,
                   revision, req, todo, cancelled, built>>

(* ------------------------------ buildDocs ----------------------------- *)

\* buildDocs step by step; each step that fails makes buildDocs return the
\* error, for which prepareVersion answers internalError.

\* http.Get(conf.tarballURL)
BuildGet(s) ==
    /\ pc[s] = "build"
    /\ \E getOk \in BOOLEAN :
         IF getOk
         THEN /\ pc' = [pc EXCEPT ![s] = "tempDir"]
              /\ UNCHANGED <<loc, resp>>
         ELSE Finish(s, InternalError(req[s]))
    /\ UNCHANGED <<projects, releases, latestVersions, installed, now, upstream,
                   revision, req, todo, cancelled, built>>

\* ioutil.TempDir("", "docsrv-")
BuildTempDir(s) ==
    /\ pc[s] = "tempDir"
    /\ \E tempDirOk \in BOOLEAN :
         IF tempDirOk
         THEN /\ pc' = [pc EXCEPT ![s] = "unpack"]
              /\ loc' = [loc EXCEPT ![s].tmpDir = "created"]
              /\ UNCHANGED resp
         ELSE Finish(s, InternalError(req[s]))
    /\ UNCHANGED <<projects, releases, latestVersions, installed, now, upstream,
                   revision, req, todo, cancelled, built>>

\* unpackit.Unpack(resp.Body, tmpDir)
BuildUnpack(s) ==
    /\ pc[s] = "unpack"
    /\ \E unpackOk \in BOOLEAN :
         IF unpackOk
         THEN /\ pc' = [pc EXCEPT ![s] = "make"]
              /\ UNCHANGED <<loc, resp>>
         ELSE Finish(s, InternalError(req[s]))
    /\ UNCHANGED <<projects, releases, latestVersions, installed, now, upstream,
                   revision, req, todo, cancelled, built>>

\* cmd.CombinedOutput() of `make docs`
BuildMake(s) ==
    /\ pc[s] = "make"
    /\ \E makeOk \in BOOLEAN :
         IF makeOk
         THEN /\ pc' = [pc EXCEPT ![s] = "removeAll"]
              /\ UNCHANGED <<loc, resp>>
         ELSE Finish(s, InternalError(req[s]))
    /\ UNCHANGED <<projects, releases, latestVersions, installed, now, upstream,
                   revision, req, todo, cancelled, built>>

\* os.RemoveAll(dir), whose error is logged, and return nil
BuildRemoveAll(s) ==
    /\ pc[s] = "removeAll"
    /\ \E removeOk \in BOOLEAN :
         loc' = [loc EXCEPT ![s].tmpDir = IF removeOk THEN "removed" ELSE "kept"]
    /\ built' = built \cup {newKey(Append(loc[s].key, loc[s].version))}
    /\ pc' = [pc EXCEPT ![s] = "install"]
    /\ UNCHANGED <<projects, releases, latestVersions, installed, now, upstream,
                   revision, req, resp, todo, cancelled>>

(* ---------------------- listVersions, redirectToLatest ---------------- *)

\* urlFor(r, version, ""): <scheme>://<host>/<version>
urlFor(r, version) == URL(r.host, <<version>>, "")

\* projectVersions: one {text, url} per release of forProject, in its order
projectVersions(r, key) ==
    [i \in 1..Len(forProject(key)) |->
        [text |-> forProject(key)[i].tag,
         url  |-> urlFor(r, forProject(key)[i].tag)]]

\* json.Marshal(versions): "null" for the nil slice projectVersions returns
\* when there is no release, the array of the entries otherwise
Marshal(versions) ==
    IF versions = <<>> THEN [kind |-> "null", items |-> <<>>]
    ELSE [kind |-> "array", items |-> versions]

\* listVersions after ensureIndexed: projectVersions, json.Marshal, w.Write
ListVersions(s) ==
    /\ pc[s] = "list"
    /\ Finish(s, [status |-> 200, location |-> NoRequest,
                  body |-> Marshal(projectVersions(req[s], loc[s].key))])
    /\ UNCHANGED <<projects, releases, latestVersions, installed, now, upstream,
                   revision, req, todo, cancelled, built>>

NonEmpty(seg) == seg # ""

\* redirectToVersion: "/latest/" is cut from the path, the rest is joined to
\* host and version by filepath.Join (which drops empty elements and a
\* trailing slash); an empty rest gets an ending slash. The query is dropped.
redirectToVersion(r, version) ==
    LET rest == Tail(r.path)
    IN  Redirect(URL(r.host,
                     IF rest = <<"">> THEN <<version, "">>
                     ELSE <<version>> \o SelectSeq(rest, NonEmpty),
                     ""))

\* a handler that goes to ensureIndexed whatever the cache holds
LatestCacheSkipped(s) ==
    /\ pc[s] = "latestCache"
    /\ pc' = [pc EXCEPT ![s] = "ensure"]
    /\ UNCHANGED <<projects, releases, latestVersions, installed, now, upstream,
                   revision, req, loc, resp, todo, cancelled, built>>

\* redirectToLatest: the cached latest version short-circuits the handler
LatestCache(s) ==
    /\ pc[s] = "latestCache"
    /\ LET cur == latestVersion(loc[s].key)
       IN  IF cur.ok
           THEN Finish(s, redirectToVersion(req[s], cur.version))
           ELSE /\ pc' = [pc EXCEPT ![s] = "ensure"]
                /\ UNCHANGED <<loc, resp>>
    /\ UNCHANGED <<projects, releases, latestVersions, installed, now, upstream,
                   revision, req, todo, cancelled, built>>

\* redirectToLatest: forProject and the choice of the last release
LatestRead(s) ==
    /\ pc[s] = "latestRead"
    /\ LET rels == forProject(loc[s].key)
       IN  IF Len(rels) = 0
           THEN Finish(s, NotFound(req[s]))
           ELSE IF revision = WithCache
           THEN /\ loc' = [loc EXCEPT ![s].release = rels[Len(rels)]]
                /\ pc' = [pc EXCEPT ![s] = "latestSet"]
                /\ UNCHANGED resp
           ELSE Finish(s, redirectToVersion(req[s], rels[Len(rels)].tag))
    /\ UNCHANGED <<projects, releases, latestVersions, installed, now, upstream,
                   revision, req, todo, cancelled, built>>

\* redirectToLatest: setLatestVersion and the redirect
LatestSet(s) ==
    /\ pc[s] = "latestSet"
    /\ latestVersions' = setLatestVersion(loc[s].key, loc[s].release.tag)
    /\ Finish(s, redirectToVersion(req[s], loc[s].release.tag))
    /\ UNCHANGED <<projects, releases, installed, now, upstream,
                   revision, req, todo, cancelled, built>>

(* ------------------------ ManageIndex, refreshIndex ------------------- *)

\* the orders in which a range over a Go map can visit the keys
Orders(S) ==
    { q \in [1..Cardinality(S) -> S] :
        \A i, j \in 1..Cardinality(S) : q[i] = q[j] => i = j }

\* a refreshIndex that visits every configured project
RefreshTickConfigured ==
    /\ pc[Refresher] = "wait"
    /\ \E order \in Orders(ProjectKeys) : todo' = order
    /\ pc' = [pc EXCEPT ![Refresher] = "pass"]
    /\ UNCHANGED <<projects, releases, latestVersions, installed, now, upstream,
                   revision, req, loc, resp, cancelled, built>>

\* ManageIndex, case <-time.After(refreshInterval): refreshIndex starts with
\* getProjects
RefreshTick ==
    /\ pc[Refresher] = "wait"
    /\ \E order \in Orders(getProjects) : todo' = order
    /\ pc' = [pc EXCEPT ![Refresher] = "pass"]
    /\ UNCHANGED <<projects, releases, latestVersions, installed, now, upstream,
                   revision, req, loc, resp, cancelled, built>>

\* a refreshIndex that returns at the first fetch that fails
RefreshNextAborts ==
    /\ pc[Refresher] = "pass"
    /\ IF todo = <<>>
       THEN /\ pc' = [pc EXCEPT ![Refresher] = "wait"]
            /\ loc' = [loc EXCEPT ![Refresher] = NoLocals]
            /\ UNCHANGED todo
       ELSE IF Len(Head(todo)) # 2
       THEN /\ todo' = Tail(todo)
            /\ UNCHANGED <<pc, loc>>
       ELSE \E fetchOk \in BOOLEAN :
              IF fetchOk
              THEN /\ todo' = Tail(todo)
                   /\ loc' = [loc EXCEPT ![Refresher] =
                                [NoLocals EXCEPT
                                   !.key = Head(todo),
                                   !.fetched = fetched(Head(todo)),
                                   !.ret = "pass",
                                   !.failed = loc[Refresher].failed]]
                   /\ pc' = [pc EXCEPT ![Refresher] = "setProjects"]
              ELSE /\ todo' = <<>>
                   /\ loc' = [loc EXCEPT ![Refresher].failed =
                                @ \cup {Head(todo)}]
                   /\ UNCHANGED pc
    /\ UNCHANGED <<projects, releases, latestVersions, installed, now, upstream,
                   revision, req, resp, cancelled, built>>

\* refreshIndex: the next key of the pass, up to the return of
\* fetcher.releases in indexProject; a failed fetch is logged and skipped
RefreshNext ==
    /\ pc[Refresher] = "pass"
    /\ IF todo = <<>>
       THEN /\ pc' = [pc EXCEPT ![Refresher] = "wait"]
            /\ loc' = [loc EXCEPT ![Refresher] = NoLocals]
            /\ UNCHANGED todo
       ELSE /\ todo' = Tail(todo)
            /\ IF Len(Head(todo)) # 2
               THEN UNCHANGED <<pc, loc>>
               ELSE \E fetchOk \in BOOLEAN :
                      IF fetchOk
                      THEN /\ loc' = [loc EXCEPT ![Refresher] =
                                        [NoLocals EXCEPT
                                           !.key = Head(todo),
                                           !.fetched = fetched(Head(todo)),
                                           !.ret = "pass",
                                           !.failed = loc[Refresher].failed]]
                           /\ pc' = [pc EXCEPT ![Refresher] = "setProjects"]
                      ELSE /\ loc' = [loc EXCEPT ![Refresher].failed =
                                        @ \cup {Head(todo)}]
                           /\ UNCHANGED pc
    /\ UNCHANGED <<projects, releases, latestVersions, installed, now, upstream,
                   revision, req, resp, cancelled, built>>

\* a ManageIndex whose select also returns when the context is not done
RefreshStopAnytime ==
    /\ pc[Refresher] = "wait"
    /\ pc' = [pc EXCEPT ![Refresher] = "stopped"]
    /\ UNCHANGED <<projects, releases, latestVersions, installed, now, upstream,
                   revision, req, loc, resp, todo, cancelled, built>>

\* ManageIndex, case <-ctx.Done()
RefreshStop ==
    /\ pc[Refresher] = "wait"
    /\ cancelled
    /\ pc' = [pc EXCEPT ![Refresher] = "stopped"]
    /\ UNCHANGED <<projects, releases, latestVersions, installed, now, upstream,
                   revision, req, loc, resp, todo, cancelled, built>>

(* ------------------------------ panics -------------------------------- *)

\* a ServeHTTP without the deferred recoverFromPanic: the panic ends the
\* handler and nothing is written
PanicUnrecovered(s) ==
    /\ pc[s] \notin {"idle", "done"}
    /\ Finish(s, NoResponse)
    /\ UNCHANGED <<projects, releases, latestVersions, installed, now, upstream,
                   revision, req, todo, cancelled, built>>

\* a panic while a request is dispatched (semver.MustParse on a tag, a nil
\* dereference...): the deferred recoverFromPanic of ServeHTTP recovers,
\* logs and calls internalError
Panic(s) ==
    /\ pc[s] \notin {"idle", "done"}
    /\ resp' = [resp EXCEPT ![s] = InternalError(req[s])]
    /\ pc' = [pc EXCEPT ![s] = "done"]
    /\ loc' = [loc EXCEPT ![s] = [NoLocals EXCEPT !.failed = {<<"panic">>}]]
    /\ UNCHANGED <<projects, releases, latestVersions, installed, now, upstream,
                   revision, req, todo, cancelled, built>>

(* ----------------------------- environment ---------------------------- *)

\* main cancels the context of ManageIndex
Cancel ==
    /\ ~cancelled
    /\ cancelled' = TRUE
    /\ UNCHANGED <<projects, releases, latestVersions, installed, now, upstream,
                   revision, pc, req, loc, resp, todo, built>>

\* time passes
Tick ==
    /\ now < MaxTime
    /\ now' = now + 1
    /\ UNCHANGED <<projects, releases, latestVersions, installed, upstream,
                   revision, pc, req, loc, resp, todo, cancelled, built>>

\* releases are published or withdrawn upstream
Publish(k, l) ==
    /\ upstream[k] # l
    /\ upstream' = [upstream EXCEPT ![k] = l]
    /\ UNCHANGED <<projects, releases, latestVersions, installed, now,
                   revision, pc, req, loc, resp, todo, cancelled, built>>

(* ---------------------------- specification --------------------------- *)

\* The service with the refresh token serving requests of the version route.
Next ==
    \/ \E s \in Slots, r \in Requests : Start(s, r)
    \/ \E s \in Slots : Ensure(s)
    \/ \E p \in Procs : SetProjects(p)
    \/ \E p \in Procs : SetReleases(p)
    \/ \E s \in Slots : CheckInstalled(s)
    \/ \E s \in Slots : GetRelease(s)
    \/ \E s \in Slots : Mkdir(s)
    \/ \E s \in Slots : BuildReturn(s)
    \/ \E s \in Slots : Install(s)
    \/ \E k \in WidgetKeys, l \in UpstreamLists : Publish(k, l)

Spec == Init /\ [][Next]_vars

\* The same service with ManageIndex running: first accesses, token-forced
\* refreshes and periodic refreshes of one project.
RefreshRequests ==
    { URL("widget.example.com", <<"v1.0.0", "guide.html">>, ""),
      URL("widget.example.com", <<"v2.0.0", "guide.html">>, "refresh") }

NextRefresh ==
    \/ \E s \in Slots, r \in RefreshRequests : Start(s, r)
    \/ \E s \in Slots : Ensure(s)
    \/ \E p \in Procs : SetProjects(p)
    \/ \E p \in Procs : SetReleases(p)
    \/ \E s \in Slots : CheckInstalled(s)
    \/ \E s \in Slots : GetRelease(s)
    \/ \E s \in Slots : Mkdir(s)
    \/ \E s \in Slots : BuildReturn(s)
    \/ \E s \in Slots : Install(s)
    \/ \E k \in WidgetKeys, l \in UpstreamLists : Publish(k, l)
    \/ RefreshTick
    \/ RefreshNext

SpecRefresh == Init /\ [][NextRefresh]_vars

(* -------------------- callers of the latest-version cache ------------- *)

\* a goroutine calls setLatestVersion(key, version), as redirectToLatest does
CallSetLatest(s, key, version) ==
    /\ pc[s] = "idle"
    /\ latestVersions' = setLatestVersion(key, version)
    /\ UNCHANGED <<projects, releases, installed, now, upstream, revision,
                   pc, req, loc, resp, todo, cancelled, built>>

\* a goroutine calls trySetLatestVersion(key, version), as prepareVersion
\* does with the tag of the release it is about to build
CallTrySet(s, key, version) ==
    /\ pc[s] = "idle"
    /\ pc' = [pc EXCEPT ![s] = "trySet"]
    /\ loc' = [loc EXCEPT ![s] =
                 [NoLocals EXCEPT !.key = key, !.release = Rel(version),
                                  !.ret = "idle"]]
    /\ UNCHANGED <<projects, releases, latestVersions, installed, now, upstream,
                   revision, req, resp, todo, cancelled, built>>

\* Concurrent trySetLatestVersion calls; setLatestVersion is called between
\* them, when no trySetLatestVersion is in progress.
NextLatest ==
    \/ \E s \in Slots, k \in WidgetKeys, v \in Versions :
         /\ \A t \in Slots : pc[t] = "idle"
         /\ CallSetLatest(s, k, v)
    \/ \E s \in Slots, k \in WidgetKeys, v \in Versions : CallTrySet(s, k, v)
    \/ \E s \in Slots : TrySetRead(s)
    \/ \E s \in Slots : TrySetWrite(s)
    \/ Tick

SpecLatest == InitCache /\ [][NextLatest]_vars

(* ------------------- the /latest/ route with the cache ---------------- *)

\* the requests of the /latest/ route: no rest, a file, a directory
LatestRequests ==
    { URL("widget.example.com", <<"latest", "">>, ""),
      URL("widget.example.com", <<"latest", "guide.html">>, ""),
      URL("widget.example.com", <<"latest", "guide", "">>, "") }

\* Upstream lists in the order the releases were published: v1.1.0 can be
\* published after v2.0.0.
PublishedLists == UpstreamLists \cup { <<Rel("v2.0.0"), Rel("v1.1.0")>> }

\* The service with the latest-version cache serving /latest/ requests while
\* time passes and upstream changes.
NextLatestRoute ==
    \/ \E s \in Slots, r \in LatestRequests : Start(s, r)
    \/ \E s \in Slots : LatestCache(s)
    \/ \E s \in Slots : Ensure(s)
    \/ \E p \in Procs : SetProjects(p)
    \/ \E p \in Procs : SetReleases(p)
    \/ \E s \in Slots : LatestRead(s)
    \/ \E s \in Slots : LatestSet(s)
    \/ \E k \in WidgetKeys, l \in PublishedLists : Publish(k, l)
    \/ Tick

SpecLatestRoute == InitCache /\ [][NextLatestRoute]_vars

(* -------------------- the routes with the refresh token --------------- *)

\* /versions.json without a token, with the refresh token and with a wrong
\* token, and /latest/ without a token
IndexRequests ==
    { URL("widget.example.com", <<"versions.json">>, ""),
      URL("widget.example.com", <<"versions.json">>, "refresh"),
      URL("widget.example.com", <<"versions.json">>, "bad"),
      URL("widget.example.com", <<"latest", "">>, "") }

\* New(opts) with Options.RefreshToken "refresh" or empty
InitIndex == \E rev \in {WithToken, WithoutSecret} : InitOf(rev)

\* The service with the refresh token, constructed with or without a
\* secret, serving /versions.json and /latest/ while upstream changes.
NextIndex ==
    \/ \E s \in Slots, r \in IndexRequests : Start(s, r)
    \/ \E s \in Slots : Ensure(s)
    \/ \E p \in Procs : SetProjects(p)
    \/ \E p \in Procs : SetReleases(p)
    \/ \E s \in Slots : ListVersions(s)
    \/ \E s \in Slots : LatestRead(s)
    \/ \E k \in WidgetKeys, l \in PublishedLists : Publish(k, l)

SpecIndex == InitIndex /\ [][NextIndex]_vars

\* /latest/ and /v2.0.0/guide.html with the refresh token, /v2.0.0/guide.html
\* without it
TokenRequests ==
    { URL("widget.example.com", <<"latest", "">>, "refresh"),
      URL("widget.example.com", <<"v2.0.0", "guide.html">>, "refresh"),
      URL("widget.example.com", <<"v2.0.0", "guide.html">>, "") }

\* The service with the refresh token serving requests that carry it and
\* requests that do not, while upstream changes.
NextToken ==
    \/ \E s \in Slots, r \in TokenRequests : Start(s, r)
    \/ \E s \in Slots : Ensure(s)
    \/ \E p \in Procs : SetProjects(p)
    \/ \E p \in Procs : SetReleases(p)
    \/ \E s \in Slots : LatestRead(s)
    \/ \E s \in Slots : CheckInstalled(s)
    \/ \E s \in Slots : GetRelease(s)
    \/ \E s \in Slots : Mkdir(s)
    \/ \E s \in Slots : BuildReturn(s)
    \/ \E s \in Slots : Install(s)
    \/ \E k \in WidgetKeys, l \in UpstreamLists : Publish(k, l)

SpecToken == Init /\ [][NextToken]_vars

(* ----------------------- the three routes, no token ------------------- *)

\* /versions.json, /latest/ and the version route, for a version upstream
\* can hold and for one it never holds
RouteRequests ==
    { URL("widget.example.com", <<"versions.json">>, ""),
      URL("widget.example.com", <<"latest", "">>, ""),
      URL("widget.example.com", <<"v2.0.0", "guide.html">>, ""),
      URL("widget.example.com", <<"v1.1.0", "guide.html">>, "") }

\* The service with the refresh token serving requests of the three routes
\* that carry no token, while upstream changes.
NextRoutes ==
    \/ \E s \in Slots, r \in RouteRequests : Start(s, r)
    \/ \E s \in Slots : Ensure(s)
    \/ \E p \in Procs : SetProjects(p)
    \/ \E p \in Procs : SetReleases(p)
    \/ \E s \in Slots : ListVersions(s)
    \/ \E s \in Slots : LatestRead(s)
    \/ \E s \in Slots : CheckInstalled(s)
    \/ \E s \in Slots : GetRelease(s)
    \/ \E s \in Slots : Mkdir(s)
    \/ \E s \in Slots : BuildReturn(s)
    \/ \E s \in Slots : Install(s)
    \/ \E k \in WidgetKeys, l \in UpstreamLists : Publish(k, l)

SpecRoutes == Init /\ [][NextRoutes]_vars

(* ---------------------- periodic refresh of two projects -------------- *)

\* /versions.json of the two projects
PassRequests ==
    { URL("widget.example.com", <<"versions.json">>, ""),
      URL("gadget.example.com", <<"versions.json">>, "") }

\* the projects of these hosts
PassKeys == { ProjectForHost(r.host).key : r \in PassRequests }

\* what upstream holds for a project between two passes
PassLists == { <<Rel("v1.0.0")>>, <<Rel("v1.0.0"), Rel("v2.0.0")>> }

\* The service indexing two projects on first access, with ManageIndex
\* refreshing them while upstream changes.
NextPass ==
    \/ \E s \in Slots, r \in PassRequests : Start(s, r)
    \/ \E s \in Slots : Ensure(s)
    \/ \E p \in Procs : SetProjects(p)
    \/ \E p \in Procs : SetReleases(p)
    \/ \E s \in Slots : ListVersions(s)
    \/ \E k \in PassKeys, l \in PassLists : Publish(k, l)
    \/ RefreshTick
    \/ RefreshNext

SpecPass == Init /\ [][NextPass]_vars

(* --------------------- ManageIndex until cancellation ----------------- *)

\* /versions.json of one project
ManageRequests == { URL("widget.example.com", <<"versions.json">>, "") }

\* The service indexing one project on first access, with ManageIndex
\* refreshing it until the context is cancelled.
NextManage ==
    \/ \E s \in Slots, r \in ManageRequests : Start(s, r)
    \/ \E s \in Slots : Ensure(s)
    \/ \E p \in Procs : SetProjects(p)
    \/ \E p \in Procs : SetReleases(p)
    \/ \E s \in Slots : ListVersions(s)
    \/ \E k \in WidgetKeys, l \in PassLists : Publish(k, l)
    \/ RefreshTick
    \/ RefreshNext
    \/ RefreshStop
    \/ Cancel

SpecManage == Init /\ [][NextManage]_vars

\* The goroutine of ManageIndex keeps running: the timer of time.After
\* fires, the fetches and the critical sections of a pass return, and a
\* select that is entered again and again with ctx.Done() closed takes that
\* case (a timer created at the entry of the select has not fired yet).
FairManage ==
    /\ SpecManage
    /\ WF_vars(RefreshTick)
    /\ WF_vars(RefreshNext)
    /\ WF_vars(SetProjects(Refresher))
    /\ WF_vars(SetReleases(Refresher))
    /\ SF_vars(RefreshStop)

(* ------------------- the three routes with panics --------------------- *)

\* The three routes, for a mapped host and a host with no mapping
FaultRequests ==
    { URL("widget.example.com", <<"versions.json">>, ""),
      URL("widget.example.com", <<"latest", "guide.html">>, ""),
      URL("widget.example.com", <<"v2.0.0", "guide.html">>, ""),
      URL("other.example.com", <<"v2.0.0", "guide.html">>, "") }

\* The service with the refresh token serving the three routes; any step of
\* a handler can panic.
NextFaults ==
    \/ \E s \in Slots, r \in FaultRequests : Start(s, r)
    \/ \E s \in Slots : Ensure(s)
    \/ \E p \in Procs : SetProjects(p)
    \/ \E p \in Procs : SetReleases(p)
    \/ \E s \in Slots : ListVersions(s)
    \/ \E s \in Slots : LatestRead(s)
    \/ \E s \in Slots : CheckInstalled(s)
    \/ \E s \in Slots : GetRelease(s)
    \/ \E s \in Slots : Mkdir(s)
    \/ \E s \in Slots : BuildReturn(s)
    \/ \E s \in Slots : Install(s)
    \/ \E s \in Slots : Panic(s)
    \/ \E k \in WidgetKeys, l \in UpstreamLists : Publish(k, l)

SpecFaults == Init /\ [][NextFaults]_vars

(* ------------------------- callers of index.set ----------------------- *)

\* a goroutine calls index.set(owner, project, rels) with a list of its own
CallSet(s, key, rels) ==
    /\ pc[s] \in {"idle", "done"}
    /\ pc' = [pc EXCEPT ![s] = "setProjects"]
    /\ loc' = [loc EXCEPT ![s] =
                 [NoLocals EXCEPT !.key = key, !.fetched = rels, !.ret = "idle"]]
    /\ req' = [req EXCEPT ![s] = NoRequest]
    /\ resp' = [resp EXCEPT ![s] = NoResponse]
    /\ UNCHANGED <<projects, releases, latestVersions, installed, now, upstream,
                   revision, todo, cancelled, built>>

\* /latest/ of one project
SetRequests == { URL("widget.example.com", <<"latest", "">>, "") }

\* index.set called with any list, in any order, next to the service
\* serving /latest/ from what its fetcher returns.
NextSet ==
    \/ \E s \in Slots, k \in WidgetKeys, l \in PublishedLists : CallSet(s, k, l)
    \/ \E s \in Slots, r \in SetRequests : Start(s, r)
    \/ \E s \in Slots : Ensure(s)
    \/ \E p \in Procs : SetProjects(p)
    \/ \E p \in Procs : SetReleases(p)
    \/ \E s \in Slots : LatestRead(s)
    \/ \E k \in WidgetKeys, l \in PublishedLists : Publish(k, l)

SpecSet == Init /\ [][NextSet]_vars

(* --------------------- a project with a minimum version --------------- *)

\* requests for the host whose project has the minimum version v1.1.0: a
\* version below it, and a version above it with the refresh token
MinRequests ==
    { URL("legacy.example.com", <<"v1.0.0", "guide.html">>, ""),
      URL("legacy.example.com", <<"v2.0.0", "guide.html">>, "refresh") }

MinKeys == { ProjectForHost(r.host).key : r \in MinRequests }

\* The service indexing that project on first access, on token refresh and
\* in the periodic pass, and building its versions, while upstream changes.
NextMin ==
    \/ \E s \in Slots, r \in MinRequests : Start(s, r)
    \/ \E s \in Slots : Ensure(s)
    \/ \E p \in Procs : SetProjects(p)
    \/ \E p \in Procs : SetReleases(p)
    \/ \E s \in Slots : CheckInstalled(s)
    \/ \E s \in Slots : GetRelease(s)
    \/ \E s \in Slots : Mkdir(s)
    \/ \E s \in Slots : BuildReturn(s)
    \/ \E s \in Slots : Install(s)
    \/ \E k \in MinKeys, l \in PublishedLists : Publish(k, l)
    \/ RefreshTick
    \/ RefreshNext

SpecMin == Init /\ [][NextMin]_vars

(* ------------------------ hosts and their mappings -------------------- *)

\* strings.Split(r.Host, ":")[0]
StripPort(host) ==
    IF host = "widget.example.com:9090" THEN "widget.example.com" ELSE host

\* hosts that ProjectForHost gives no project: no mapping, a repository
\* without "/", a repository with two "/"
UnmappedHosts ==
    { "other.example.com", "broken.example.com", "deep.example.com" }

\* the three routes for every host without a project, for a mapped host
\* and for that host given with a port
HostRequests ==
    { URL(h, p, "") :
        h \in UnmappedHosts
               \cup {"widget.example.com", "widget.example.com:9090"},
        p \in { <<"versions.json">>, <<"latest", "">>,
                <<"v2.0.0", "guide.html">> } }

\* The service with the refresh token receiving requests for hosts with and
\* without a project.
NextHosts ==
    \/ \E s \in Slots, r \in HostRequests : Start(s, r)
    \/ \E s \in Slots : Ensure(s)
    \/ \E p \in Procs : SetProjects(p)
    \/ \E p \in Procs : SetReleases(p)
    \/ \E s \in Slots : ListVersions(s)
    \/ \E s \in Slots : LatestRead(s)
    \/ \E s \in Slots : CheckInstalled(s)
    \/ \E s \in Slots : GetRelease(s)
    \/ \E s \in Slots : Mkdir(s)
    \/ \E s \in Slots : BuildReturn(s)
    \/ \E s \in Slots : Install(s)

SpecHosts == Init /\ [][NextHosts]_vars

(* ----------------------- the steps of buildDocs ----------------------- *)

\* /v2.0.0/guide.html of one project
BuildRequests == { URL("widget.example.com", <<"v2.0.0", "guide.html">>, "") }

\* The service with the refresh token serving requests of the version
\* route, buildDocs taken step by step.
NextBuild ==
    \/ \E s \in Slots, r \in BuildRequests : Start(s, r)
    \/ \E s \in Slots : Ensure(s)
    \/ \E p \in Procs : SetProjects(p)
    \/ \E p \in Procs : SetReleases(p)
    \/ \E s \in Slots : CheckInstalled(s)
    \/ \E s \in Slots : GetRelease(s)
    \/ \E s \in Slots : Mkdir(s)
    \/ \E s \in Slots : BuildGet(s)
    \/ \E s \in Slots : BuildTempDir(s)
    \/ \E s \in Slots : BuildUnpack(s)
    \/ \E s \in Slots : BuildMake(s)
    \/ \E s \in Slots : BuildRemoveAll(s)
    \/ \E s \in Slots : Install(s)

SpecBuild == Init /\ [][NextBuild]_vars

(* --------------------------- the path "/" ----------------------------- *)

\* the path "/": strings.Split(strings.TrimLeft("/", "/"), "/") is [""]
RootPath == <<"">>

\* /, /latest/, /versions.json and /v2.0.0/guide.html of one project
RootRequests ==
    { URL("widget.example.com", p, "") :
        p \in { RootPath, <<"latest", "">>, <<"versions.json">>,
                <<"v2.0.0", "guide.html">> } }

\* The service with the refresh token serving the four kinds of path while
\* upstream keeps its two releases.
NextRoot ==
    \/ \E s \in Slots, r \in RootRequests : Start(s, r)
    \/ \E s \in Slots : Ensure(s)
    \/ \E p \in Procs : SetProjects(p)
    \/ \E p \in Procs : SetReleases(p)
    \/ \E s \in Slots : ListVersions(s)
    \/ \E s \in Slots : LatestRead(s)
    \/ \E s \in Slots : CheckInstalled(s)
    \/ \E s \in Slots : GetRelease(s)
    \/ \E s \in Slots : Mkdir(s)
    \/ \E s \in Slots : BuildReturn(s)
    \/ \E s \in Slots : Install(s)

SpecRoot == Init /\ [][NextRoot]_vars

(* ------------- refresh passes beside the cache and the installs ------- *)

\* /latest/ of two projects and /v2.0.0/guide.html of the first
FrameRequests ==
    { URL("widget.example.com", <<"latest", "">>, ""),
      URL("widget.example.com", <<"v2.0.0", "guide.html">>, ""),
      URL("gadget.example.com", <<"latest", "">>, "") }

\* The service with the latest-version cache serving /latest/ and a version
\* while ManageIndex refreshes the index and upstream changes.
NextFrame ==
    \/ \E s \in Slots, r \in FrameRequests : Start(s, r)
    \/ \E s \in Slots : LatestCache(s)
    \/ \E s \in Slots : Ensure(s)
    \/ \E p \in Procs : SetProjects(p)
    \/ \E p \in Procs : SetReleases(p)
    \/ \E s \in Slots : LatestRead(s)
    \/ \E s \in Slots : LatestSet(s)
    \/ \E s \in Slots : CheckInstalled(s)
    \/ \E s \in Slots : GetRelease(s)
    \/ \E s \in Slots : TrySetRead(s)
    \/ \E s \in Slots : TrySetWrite(s)
    \/ \E s \in Slots : Mkdir(s)
    \/ \E s \in Slots : BuildReturn(s)
    \/ \E s \in Slots : Install(s)
    \/ \E k \in WidgetKeys, l \in PassLists : Publish(k, l)
    \/ RefreshTick
    \/ RefreshNext

SpecFrame == InitCache /\ [][NextFrame]_vars

(* ------------- passes beside token-forced refreshes ------------------- *)

\* /versions.json of one project, without a token and with the refresh token
ConvergeRequests ==
    { URL("widget.example.com", <<"versions.json">>, ""),
      URL("widget.example.com", <<"versions.json">>, "refresh") }

\* The service indexing one project on first access and on the refresh
\* token, with ManageIndex refreshing it until the context is cancelled.
NextConverge ==
    \/ \E s \in Slots, r \in ConvergeRequests : Start(s, r)
    \/ \E s \in Slots : Ensure(s)
    \/ \E p \in Procs : SetProjects(p)
    \/ \E p \in Procs : SetReleases(p)
    \/ \E s \in Slots : ListVersions(s)
    \/ \E k \in WidgetKeys, l \in PassLists : Publish(k, l)
    \/ RefreshTick
    \/ RefreshNext
    \/ RefreshStop
    \/ Cancel

SpecConverge == Init /\ [][NextConverge]_vars

\* The goroutine of ManageIndex keeps running, as in FairManage; nothing is
\* assumed of the goroutines of the requests.
FairConverge ==
    /\ SpecConverge
    /\ WF_vars(RefreshTick)
    /\ WF_vars(RefreshNext)
    /\ WF_vars(SetProjects(Refresher))
    /\ WF_vars(SetReleases(Refresher))
    /\ SF_vars(RefreshStop)

(* ------------------ overlapping indexings of a project ---------------- *)

\* New(opts) with the refresh token, upstream holding the first release only
InitOverlap ==
    /\ revision = WithToken
    /\ projects = EmptyMap
    /\ releases = EmptyMap
    /\ latestVersions = EmptyMap
    /\ installed = {}
    /\ now = 0
    /\ upstream = [k \in ProjectKeys |-> <<Rel("v1.0.0")>>]
    /\ pc = [p \in Procs |-> IF p = Refresher THEN "wait" ELSE "idle"]
    /\ req = [s \in Slots |-> NoRequest]
    /\ loc = [p \in Procs |-> NoLocals]
    /\ resp = [s \in Slots |-> NoResponse]
    /\ todo = <<>>
    /\ cancelled = FALSE
    /\ built = {}

\* the release v2.0.0 of project k is published, and stays
PublishSecond(k) == Publish(k, <<Rel("v1.0.0"), Rel("v2.0.0")>>)

\* The service indexing one project on first access, on the refresh token
\* and periodically, while the second release of the project is published.
NextOverlap ==
    \/ \E s \in Slots, r \in ConvergeRequests : Start(s, r)
    \/ \E s \in Slots : Ensure(s)
    \/ \E p \in Procs : SetProjects(p)
    \/ \E p \in Procs : SetReleases(p)
    \/ \E s \in Slots : ListVersions(s)
    \/ \E k \in WidgetKeys : PublishSecond(k)
    \/ RefreshTick
    \/ RefreshNext

SpecOverlap == InitOverlap /\ [][NextOverlap]_vars

(* ------------------- concurrent first accesses ------------------------ *)

\* /versions.json and /latest/ of one project, without a token
FlightRequests ==
    { URL("widget.example.com", <<"versions.json">>, ""),
      URL("widget.example.com", <<"latest", "">>, "") }

\* The service with the refresh token serving requests without a token,
\* ensureIndexed taken step by step, while upstream changes.
NextFlight ==
    \/ \E s \in Slots, r \in FlightRequests : Start(s, r)
    \/ \E s \in Slots : EnsureCheck(s)
    \/ \E s \in Slots : FetchReturn(s)
    \/ \E p \in Procs : SetProjects(p)
    \/ \E p \in Procs : SetReleases(p)
    \/ \E s \in Slots : ListVersions(s)
    \/ \E s \in Slots : LatestRead(s)
    \/ \E k \in WidgetKeys, l \in UpstreamLists : Publish(k, l)

SpecFlight == Init /\ [][NextFlight]_vars

(* ------------------- the mutexes of projectIndex ---------------------- *)

\* the four mutexes of projectIndex
Mutexes == {"projectsMut", "releasesMut", "latestMut", "installedMut"}

\* m.Lock(), m.Unlock() and a call that blocks on the network, the disk or a
\* subprocess
Lock(m) == [op |-> "Lock", on |-> m]

Unlock(m) == [op |-> "Unlock", on |-> m]

Blocking(call) == [op |-> "blocking", on |-> call]

\* the calls of each method of projectIndex, in the order it makes them
getProjectsOps == <<Lock("projectsMut"), Unlock("projectsMut")>>

\* a set that keeps projectsMut until the by-tag index is written
setOpsNested ==
    <<Lock("projectsMut"), Lock("releasesMut"),
      Unlock("releasesMut"), Unlock("projectsMut")>>

setOps ==
    <<Lock("projectsMut"), Unlock("projectsMut"),
      Lock("releasesMut"), Unlock("releasesMut")>>

getOps == <<Lock("releasesMut"), Unlock("releasesMut")>>

forProjectOps == <<Lock("projectsMut"), Unlock("projectsMut")>>

isIndexedOps == <<Lock("projectsMut"), Unlock("projectsMut")>>

setLatestVersionOps == <<Lock("latestMut"), Unlock("latestMut")>>

latestVersionOps == <<Lock("latestMut"), Unlock("latestMut")>>

\* trySetLatestVersion when it finds a lower version cached
trySetLatestVersionOps == latestVersionOps \o setLatestVersionOps

isInstalledOps == <<Lock("installedMut"), Unlock("installedMut")>>

installOps == <<Lock("installedMut"), Unlock("installedMut")>>

\* indexProject: fetcher.releases, then index.set
indexProjectOps == <<Blocking("fetcher.releases")>> \o setOps

\* ensureIndexed of a project that is not indexed
ensureIndexedOps == isIndexedOps \o indexProjectOps

\* buildDocs: the download of the tarball, the temporary directory, the
\* extraction, the build command, the removal of the temporary files
buildDocsOps ==
    <<Blocking("http.Get"), Blocking("ioutil.TempDir"),
      Blocking("unpackit.Unpack"), Blocking("cmd.CombinedOutput"),
      Blocking("os.RemoveAll")>>

\* listVersions of a project that is not indexed
listVersionsOps == ensureIndexedOps \o forProjectOps

\* redirectToLatest with no fresh entry in the cache, the project indexed
redirectToLatestOps ==
    latestVersionOps \o isIndexedOps \o forProjectOps \o setLatestVersionOps

\* prepareVersion of a version that is built and installed, the project not
\* indexed
prepareVersionOps ==
    ensureIndexedOps \o isInstalledOps \o getOps \o trySetLatestVersionOps
      \o <<Blocking("os.MkdirAll")>> \o buildDocsOps \o installOps

\* refreshIndex with one project in the index
refreshIndexOps == getProjectsOps \o indexProjectOps

\* what a goroutine of a request runs, and what the one of ManageIndex runs
HandlerOps ==
    {listVersionsOps, latestVersionOps, redirectToLatestOps, prepareVersionOps}

OpsOf(p) == IF p = Refresher THEN {refreshIndexOps} ELSE HandlerOps

\* goroutine p enters a handler, or a pass of refreshIndex
CallOps(p, ops) ==
    /\ loc[p].ops = <<>>
    /\ pc[p] \in {"idle", "wait"}
    /\ loc' = [loc EXCEPT ![p].ops = ops]
    /\ UNCHANGED <<projects, releases, latestVersions, installed, now, upstream,
                   revision, pc, req, resp, todo, cancelled, built>>

\* the mutex is held by some goroutine
IsLocked(m) == \E q \in Procs : m \in loc[q].held

\* m.Lock() returns once no goroutine holds m
LockStep(p) ==
    /\ loc[p].ops # <<>>
    /\ Head(loc[p].ops).op = "Lock"
    /\ ~IsLocked(Head(loc[p].ops).on)
    /\ loc' = [loc EXCEPT ![p].ops = Tail(@),
                          ![p].held = @ \cup {Head(loc[p].ops).on}]
    /\ UNCHANGED <<projects, releases, latestVersions, installed, now, upstream,
                   revision, pc, req, resp, todo, cancelled, built>>

\* m.Unlock()
UnlockStep(p) ==
    /\ loc[p].ops # <<>>
    /\ Head(loc[p].ops).op = "Unlock"
    /\ loc' = [loc EXCEPT ![p].ops = Tail(@),
                          ![p].held = @ \ {Head(loc[p].ops).on}]
    /\ UNCHANGED <<projects, releases, latestVersions, installed, now, upstream,
                   revision, pc, req, resp, todo, cancelled, built>>

\* a blocking call returns
BlockingReturn(p) ==
    /\ loc[p].ops # <<>>
    /\ Head(loc[p].ops).op = "blocking"
    /\ loc' = [loc EXCEPT ![p].ops = Tail(@)]
    /\ UNCHANGED <<projects, releases, latestVersions, installed, now, upstream,
                   revision, pc, req, resp, todo, cancelled, built>>

\* The goroutines of the requests and of ManageIndex, followed lock by lock.
NextLocks ==
    \/ \E p \in Procs : \E ops \in OpsOf(p) : CallOps(p, ops)
    \/ \E p \in Procs : LockStep(p)
    \/ \E p \in Procs : UnlockStep(p)
    \/ \E p \in Procs : BlockingReturn(p)

SpecLocks == InitCache /\ [][NextLocks]_vars

(* --------------- versions and files on the version route -------------- *)

\* /v1.0.0/guide.html, /v2.0.0/guide.html with and without the refresh
\* token, the file /guide.html and the path /
InstallRequests ==
    { URL("widget.example.com", <<"v1.0.0", "guide.html">>, ""),
      URL("widget.example.com", <<"v2.0.0", "guide.html">>, ""),
      URL("widget.example.com", <<"v2.0.0", "guide.html">>, "refresh"),
      URL("widget.example.com", <<"guide.html">>, ""),
      URL("widget.example.com", RootPath, "") }

\* The service with the refresh token serving requests of the version route
\* for versions and for paths that name no version, while releases are
\* published and withdrawn upstream.
NextInstall ==
    \/ \E s \in Slots, r \in InstallRequests : Start(s, r)
    \/ \E s \in Slots : Ensure(s)
    \/ \E p \in Procs : SetProjects(p)
    \/ \E p \in Procs : SetReleases(p)
    \/ \E s \in Slots : CheckInstalled(s)
    \/ \E s \in Slots : GetRelease(s)
    \/ \E s \in Slots : Mkdir(s)
    \/ \E s \in Slots : BuildReturn(s)
    \/ \E s \in Slots : Install(s)
    \/ \E k \in WidgetKeys, l \in UpstreamLists : Publish(k, l)

SpecInstall == Init /\ [][NextInstall]_vars

(* ---------------------- projects with no release ---------------------- *)

\* The service with the refresh token serving /versions.json and /latest/
\* without a token, with ManageIndex refreshing the index, while upstream
\* goes from no release to some and back.
NextEmpty ==
    \/ \E s \in Slots, r \in FlightRequests : Start(s, r)
    \/ \E s \in Slots : Ensure(s)
    \/ \E p \in Procs : SetProjects(p)
    \/ \E p \in Procs : SetReleases(p)
    \/ \E s \in Slots : ListVersions(s)
    \/ \E s \in Slots : LatestRead(s)
    \/ \E k \in WidgetKeys, l \in UpstreamLists : Publish(k, l)
    \/ RefreshTick
    \/ RefreshNext

SpecEmpty == Init /\ [][NextEmpty]_vars

(* --------------- trySet on the version route, with builds ------------- *)

\* The service with the latest-version cache serving /latest/ and two
\* versions of one project, with ManageIndex refreshing the index, while
\* upstream changes.
NextAdvance ==
    \/ \E s \in Slots, r \in CacheRequests : Start(s, r)
    \/ \E s \in Slots : LatestCache(s)
    \/ \E s \in Slots : Ensure(s)
    \/ \E p \in Procs : SetProjects(p)
    \/ \E p \in Procs : SetReleases(p)
    \/ \E s \in Slots : LatestRead(s)
    \/ \E s \in Slots : LatestSet(s)
    \/ \E s \in Slots : CheckInstalled(s)
    \/ \E s \in Slots : GetRelease(s)
    \/ \E s \in Slots : TrySetRead(s)
    \/ \E s \in Slots : TrySetWrite(s)
    \/ \E s \in Slots : Mkdir(s)
    \/ \E s \in Slots : BuildReturn(s)
    \/ \E s \in Slots : Install(s)
    \/ \E k \in WidgetKeys, l \in PassLists : Publish(k, l)
    \/ RefreshTick
    \/ RefreshNext

SpecAdvance == InitCache /\ [][NextAdvance]_vars

(* ------------------ the age of the latest-version cache --------------- *)

\* /latest/ and /v2.0.0/guide.html of one project
StaleRequests ==
    { URL("widget.example.com", <<"latest", "">>, ""),
      URL("widget.example.com", <<"v2.0.0", "guide.html">>, "") }

\* the two releases of the project
BothReleases == <<Rel("v1.0.0"), Rel("v2.0.0")>>

\* upstream and the release store hold the two releases of project k, and no
\* indexing is about to store another list
Settled(k) ==
    /\ upstream[k] = BothReleases
    /\ forProject(k) = BothReleases
    /\ \A p \in Procs :
         pc[p] \in {"setProjects", "setReleases"} => loc[p].fetched = BothReleases

\* releases are published and withdrawn during the first hour
PublishEarly(k, l) == now = 0 /\ Publish(k, l)

\* an hour passes, the first one once v2.0.0 is the latest release of the
\* store for good
TickSettled == (\A k \in WidgetKeys : Settled(k)) /\ Tick

\* The service with the latest-version cache serving /latest/ and a version
\* of one project, with ManageIndex refreshing the index: v2.0.0 becomes the
\* latest release of the store during the first hour and hours pass.
NextStale ==
    \/ \E s \in Slots, r \in StaleRequests : Start(s, r)
    \/ \E s \in Slots : LatestCache(s)
    \/ \E s \in Slots : Ensure(s)
    \/ \E p \in Procs : SetProjects(p)
    \/ \E p \in Procs : SetReleases(p)
    \/ \E s \in Slots : LatestRead(s)
    \/ \E s \in Slots : LatestSet(s)
    \/ \E s \in Slots : CheckInstalled(s)
    \/ \E s \in Slots : GetRelease(s)
    \/ \E s \in Slots : TrySetRead(s)
    \/ \E s \in Slots : TrySetWrite(s)
    \/ \E s \in Slots : Mkdir(s)
    \/ \E s \in Slots : BuildReturn(s)
    \/ \E s \in Slots : Install(s)
    \/ \E k \in WidgetKeys, l \in PassLists : PublishEarly(k, l)
    \/ RefreshTick
    \/ RefreshNext
    \/ TickSettled

SpecStale == InitCache /\ [][NextStale]_vars

(* ------------------------------ properties ---------------------------- *)

\* the key/version triple a slot is preparing
Triple(s) == newKey(Append(loc[s].key, loc[s].version))

\* the tags of a release list
TagsOf(rels) == { rels[i].tag : i \in 1..Len(rels) }

\* p is inside index.set, between its two critical sections
SetsList(p) == pc[p] = "setProjects" /\ pc'[p] = "setReleases"

\* p leaves index.set
SetReturns(p) == pc[p] = "setReleases" /\ pc'[p] # "setReleases"

\* C1: set is atomic for readers: in every state every release that
\* forProject returns for a project is the release get returns for its tag,
\* so no reader sees the list of one generation with the by-tag index of
\* another.
C1_SetAtomic ==
    \A k \in ProjectKeys :
        \A i \in 1..Len(forProject(k)) :
            get(k, forProject(k)[i].tag) = forProject(k)[i]

\* C2: when a set returns, get answers for exactly the tags of the list that
\* was set: a tag of an earlier list that is not in this one is absent.
C2_IndexReplaced ==
    [][\A p \in Procs :
          SetReturns(p) =>
            \A v \in Versions :
               (newKey(Append(loc[p].key, v)) \in DOMAIN releases')
                 <=> v \in TagsOf(loc[p].fetched)]_vars

\* C3: the release list of a project changes only in a set, and a set by a
\* first access, a token-forced refresh or the periodic refresh leaves
\* forProject equal to the list it was given, whatever was stored before.
C3_ListReplaced ==
    [][/\ \A p \in Procs :
            SetsList(p) => projects'[newKey(loc[p].key)] = loc[p].fetched
       /\ projects' # projects => \E p \in Procs : SetsList(p)]_vars

\* C3 witness: the periodic refresh has just replaced the list of a project
\* by a list without a tag that an earlier set had indexed.
C3_Witness ==
    /\ pc[Refresher] = "setReleases"
    /\ forProject(loc[Refresher].key) = loc[Refresher].fetched
    /\ \E v \in Versions :
         /\ get(loc[Refresher].key, v) # NoRelease
         /\ v \notin TagsOf(forProject(loc[Refresher].key))

\* C4: the write of a trySetLatestVersion call never replaces a fresh cached
\* tag by a semantically lower one.
C4_TrySetNeverDecreases ==
    [][\A s \in Slots :
          (/\ pc[s] = "trySetWrite"
           /\ pc'[s] # "trySetWrite"
           /\ latestVersion(loc[s].key).ok)
          => ~LessThan(latestVersions'[newKey(loc[s].key)].version,
                       latestVersion(loc[s].key).version)]_vars

\* C5 as stated: buildDocs is never entered for a project version that is
\* marked installed at that moment.
C5_NoBuildOfInstalled ==
    [][\A s \in Slots :
          (pc[s] = "mkdir" /\ pc'[s] = "build") => Triple(s) \notin installed]_vars

\* C5 amended: buildDocs is entered only by a request whose own isInstalled
\* check returned false.
C5_BuildAfterNegativeCheck ==
    \A s \in Slots :
        pc[s] \in {"get", "mkdir", "build", "install"} => ~loc[s].sawInstalled

\* C5 witness: a request is inside buildDocs for a version that another
\* request has installed since this one made its check.
C5_Witness ==
    \E s \in Slots : pc[s] = "build" /\ Triple(s) \in installed

\* buildDocs is entered by slot s
BuildStart(s) == Mkdir(s) /\ pc'[s] = "build"

\* C6: nothing de-duplicates builds: a request that found the release of a
\* version that was not installed can enter buildDocs whatever the other
\* requests are doing.
C6_NoBuildDeduplication ==
    \A s \in Slots : pc[s] = "mkdir" => ENABLED BuildStart(s)

\* C6 witness: two requests are inside buildDocs for the same project and
\* version.
C6_Witness ==
    \E s, t \in Slots :
        s # t /\ pc[s] = "build" /\ pc[t] = "build" /\ Triple(s) = Triple(t)

\* C7: every install record is of a triple for which buildDocs returned nil.
C7_InstalledOnlyAfterBuild == installed \subseteq built

\* C7 witness: a version is installed, and a request for another version
\* ended in the internal error and left no install record.
C7_Witness ==
    \E s \in Slots :
        /\ pc[s] = "done"
        /\ resp[s] = internalError(req[s])
        /\ newKey(<<"acme", "widget", versionFromReq(req[s])>>) \notin installed
        /\ installed # {}

\* C8: no step removes an install record, and installing a triple that is
\* installed changes nothing.
C8_InstallNeverCleared ==
    [][/\ installed \subseteq installed'
       /\ \A s \in Slots :
            (pc[s] = "install" /\ pc'[s] = "done" /\ Triple(s) \in installed)
              => installed' = installed]_vars

\* C8 witness: a request is about to mark installed a triple that is
\* installed, another triple being installed too.
C8_Witness ==
    \E s \in Slots :
        /\ pc[s] = "install"
        /\ Triple(s) \in installed
        /\ installed # {Triple(s)}

GuideV2 == URL("widget.example.com", <<"v2.0.0", "guide.html">>, "")

\* a request for /v2.0.0/guide.html is answered from the installed branch
AnswersInstalled(s) ==
    /\ req[s] = GuideV2
    /\ pc[s] = "isInstalled"
    /\ pc'[s] = "done"
    /\ Triple(s) \in installed

C10_BuildInstallRedirect ==
    [][\A s \in Slots :
          /\ (/\ pc[s] = "get"
              /\ pc'[s] # "get"
              /\ get(loc[s].key, loc[s].version) # NoRelease)
               => pc'[s] = "mkdir"
          /\ (/\ pc[s] = "build"
              /\ pc'[s] # "build"
              /\ Triple(s) \in built' \ built)
               => pc'[s] = "install"
          /\ (pc[s] = "install" /\ pc'[s] # "install")
               => /\ pc'[s] = "done"
                  /\ resp'[s] = [status |-> 307, location |-> req[s],
                                 body |-> NoBody]
                  /\ Triple(s) \in installed']_vars

\* C10 witness: a request with ?token=refresh was answered with its own URL
\* and its version is installed.
C10_Witness ==
    \E s \in Slots :
        /\ pc[s] = "done"
        /\ req[s].token = "refresh"
        /\ resp[s].status = 307
        /\ resp[s].location = req[s]
        /\ newKey(<<"acme", "widget", versionFromReq(req[s])>>) \in installed

\* the last release of the list stored for a key
LastOf(key) == forProject(key)[Len(forProject(key))]

\* C11: with the latest-version cache, every /latest/ request starts with
\* the cache check, and while the entry of the project is fresh the request
\* is answered at once with a redirect to the cached tag: no fetch, no read
\* or write of the release store, whatever the store and upstream hold.
C11_CacheShortCircuits ==
    [][\A s \in Slots :
          /\ (/\ pc[s] \in {"idle", "done"}
              /\ pc'[s] \notin {"idle", "done"}
              /\ Route(req'[s]) = "latest")
               => pc'[s] = "latestCache"
          /\ (/\ pc[s] = "latestCache"
              /\ pc'[s] # "latestCache"
              /\ latestVersion(loc[s].key).ok)
               => /\ pc'[s] = "done"
                  /\ resp'[s].status = 307
                  /\ resp'[s].location.host = req[s].host
                  /\ Head(resp'[s].location.path)
                       = latestVersion(loc[s].key).version
                  /\ projects' = projects
                  /\ releases' = releases
                  /\ latestVersions' = latestVersions]_vars

\* C11 witness: a /latest/ request was redirected to the cached v1.0.0 while
\* the cache entry is fresh and the release store already ends with v2.0.0.
C11_Witness ==
    \E s \in Slots :
        /\ pc[s] = "done"
        /\ Route(req[s]) = "latest"
        /\ resp[s].status = 307
        /\ Head(resp[s].location.path) = "v1.0.0"
        /\ latestVersion(<<"acme", "widget">>)
             = [version |-> "v1.0.0", ok |-> TRUE]
        /\ isIndexed(<<"acme", "widget">>)
        /\ forProject(<<"acme", "widget">>) # <<>>
        /\ LastOf(<<"acme", "widget">>).tag = "v2.0.0"

\* C12: a /latest/ request that finds no fresh cache entry goes on to
\* ensureIndexed; it reads the list of an indexed project; for an empty list
\* it answers with the not-found redirect and leaves the cache as it is;
\* otherwise it takes a release of the list that no release of the list
\* exceeds in semantic-version order, stores its tag in the cache with the
\* current time and redirects to it.
C12_LatestFromStore ==
    [][\A s \in Slots :
          /\ (/\ pc[s] = "latestCache"
              /\ pc'[s] # "latestCache"
              /\ ~latestVersion(loc[s].key).ok)
               => pc'[s] = "ensure"
          /\ pc[s] = "latestRead" => isIndexed(loc[s].key)
          /\ (pc[s] = "latestRead" /\ pc'[s] # "latestRead")
               => IF forProject(loc[s].key) = <<>>
                  THEN /\ pc'[s] = "done"
                       /\ resp'[s] = notFoundPage(req[s])
                       /\ latestVersions' = latestVersions
                  ELSE /\ pc'[s] = "latestSet"
                       /\ \E i \in 1..Len(forProject(loc[s].key)) :
                            loc'[s].release = forProject(loc[s].key)[i]
                       /\ \A i \in 1..Len(forProject(loc[s].key)) :
                            ~LessThan(loc'[s].release.tag,
                                      forProject(loc[s].key)[i].tag)
                       /\ latestVersions' = latestVersions
          /\ (pc[s] = "latestSet" /\ pc'[s] # "latestSet")
               => /\ pc'[s] = "done"
                  /\ latestVersions'[newKey(loc[s].key)]
                       = [cachedAt |-> now, version |-> loc[s].release.tag]
                  /\ now < now + latestVersionLifetime
                  /\ resp'[s].status = 307
                  /\ Head(resp'[s].location.path) = loc[s].release.tag]_vars

\* C12 witness: upstream published v2.0.0 and then v1.1.0; GET /latest/ was
\* redirected to /v2.0.0/ and v2.0.0 is the cache entry, stored now.
C12_Witness ==
    \E s \in Slots :
        /\ pc[s] = "done"
        /\ req[s] = URL("widget.example.com", <<"latest", "">>, "")
        /\ resp[s] = Redirect(URL("widget.example.com", <<"v2.0.0", "">>, ""))
        /\ upstream[<<"acme", "widget">>] = <<Rel("v2.0.0"), Rel("v1.1.0")>>
        /\ forProject(<<"acme", "widget">>) = <<Rel("v1.1.0"), Rel("v2.0.0")>>
        /\ <<"acme", "widget">> \in DOMAIN latestVersions
        /\ latestVersions[<<"acme", "widget">>]
             = [cachedAt |-> now, version |-> "v2.0.0"]

\* C13: every /latest/<rest> request that is redirected to a version V gets
\* the location <host>/V/<rest> with the segments of <rest> unchanged (for
\* an empty <rest>: <host>/V/).
C13_LatestRedirectKeepsRest ==
    [][\A s \in Slots :
          (/\ Route(req[s]) = "latest"
           /\ pc[s] \in {"latestCache", "latestRead", "latestSet"}
           /\ pc'[s] = "done"
           /\ resp'[s] # NotFound(req[s]))
            => \E v \in Versions :
                 resp'[s] = Redirect(URL(req[s].host,
                                         <<v>> \o Tail(req[s].path), ""))]_vars

\* C14: latestVersion returns (tag, true) exactly when the map has an entry
\* for the project and now < cachedAt + lifetime, and ("", false) otherwise:
\* for a project never set, and for an entry at or past its lifetime, which
\* is still stored.
C14_LatestVersionFreshOnly ==
    \A k \in ProjectKeys :
        latestVersion(k) =
            IF /\ newKey(k) \in DOMAIN latestVersions
               /\ now < latestVersions[newKey(k)].cachedAt + latestVersionLifetime
            THEN [version |-> latestVersions[newKey(k)].version, ok |-> TRUE]
            ELSE [version |-> "", ok |-> FALSE]

\* C14 witness: an entry is stored, now is exactly cachedAt + lifetime, and
\* latestVersion reports the project absent.
C14_Witness ==
    \E k \in ProjectKeys :
        /\ newKey(k) \in DOMAIN latestVersions
        /\ latestVersions[newKey(k)].version \in Versions
        /\ now = latestVersions[newKey(k)].cachedAt + latestVersionLifetime
        /\ latestVersion(k) = [version |-> "", ok |-> FALSE]

\* C15: a trySetLatestVersion call that finds no fresh entry (the project
\* was never set, or its entry has expired) returns without writing; the
\* cache changes only in an explicit set or in the write of a trySet whose
\* check found a fresh entry, and no trySet creates the first entry.
C15_TrySetNeedsFreshEntry ==
    [][/\ \A s \in Slots :
            /\ (/\ pc[s] = "trySet"
                /\ pc'[s] # "trySet"
                /\ ~latestVersion(loc[s].key).ok)
                 => /\ pc'[s] # "trySetWrite"
                    /\ latestVersions' = latestVersions
            /\ pc[s] = "trySetWrite"
                 => newKey(loc[s].key) \in DOMAIN latestVersions
       /\ latestVersions' # latestVersions
            => \/ \E s \in Slots : pc[s] = "trySetWrite" /\ pc'[s] # "trySetWrite"
               \/ \A s \in Slots : pc[s] = "idle" /\ pc'[s] = "idle"]_vars

\* C15 witness: trySetLatestVersion(v2.0.0) has returned and the expired
\* entry v1.0.0 of time 0 is still the one stored.
C15_Witness ==
    \E s \in Slots :
        /\ pc[s] = "idle"
        /\ loc[s].release.tag = "v2.0.0"
        /\ newKey(loc[s].key) \in DOMAIN latestVersions
        /\ latestVersions[newKey(loc[s].key)]
             = [cachedAt |-> 0, version |-> "v1.0.0"]
        /\ now = MaxTime

\* the place of a tag in semantic-version order
SemverRank(v) ==
    CASE v = "v1.0.0" -> 1
      [] v = "v1.1.0" -> 2
      [] v = "v2.0.0" -> 3

\* C16: a trySetLatestVersion(v2) call that finds the fresh entry v1 goes on
\* to write if and only if v2 > v1 in semantic-version order, and its write
\* stores v2; for v2 equal to or lower than v1 it returns and the entry (tag
\* and cachedAt) is unchanged.
C16_TrySetIffGreater ==
    [][\A s \in Slots :
          /\ (/\ pc[s] = "trySet"
              /\ pc'[s] # "trySet"
              /\ latestVersion(loc[s].key).ok)
               => /\ latestVersions' = latestVersions
                  /\ pc'[s] = "trySetWrite"
                       <=> SemverRank(loc[s].release.tag)
                             > SemverRank(latestVersion(loc[s].key).version)
          /\ (pc[s] = "trySetWrite" /\ pc'[s] # "trySetWrite")
               => latestVersions'[newKey(loc[s].key)].version
                    = loc[s].release.tag]_vars

\* C16 witness: trySetLatestVersion(v1.1.0) has returned with the fresh entry
\* v1.1.0 of time 0 unchanged at time 0, and a trySetLatestVersion(v2.0.0)
\* is about to write.
C16_Witness ==
    \E s, t \in Slots :
        /\ pc[s] = "idle"
        /\ loc[s].release.tag = "v1.1.0"
        /\ pc[t] = "trySetWrite"
        /\ loc[t].release.tag = "v2.0.0"
        /\ loc[t].key = loc[s].key
        /\ newKey(loc[t].key) \in DOMAIN latestVersions
        /\ latestVersions[newKey(loc[t].key)]
             = [cachedAt |-> 0, version |-> "v1.1.0"]
        /\ now = 0

\* slot s leaves the isIndexed check of ensureIndexed
EnsureStep(s) == pc[s] = "ensure" /\ pc'[s] # "ensure"

\* slot s returns from fetcher.releases with the releases upstream has
Fetches(s) ==
    /\ pc'[s] = "setProjects"
    /\ loc'[s].ret = AfterIndex(req[s])
    /\ IF loc[s].key \in DOMAIN upstream
       THEN TagsOf(loc'[s].fetched) = TagsOf(upstream[loc[s].key])
       ELSE loc'[s].fetched = <<>>

\* C17: a request with the configured refresh token fetches the releases
\* even when the project is indexed (or fails with the internal error when
\* the fetch fails); the fetched list replaces the stored one, every tag of
\* it is in the by-tag index when set returns and stays there, so the same
\* request finds a release that was added upstream before its fetch.
C17_TokenForcesRefresh ==
    [][\A s \in Slots :
          /\ (EnsureStep(s) /\ req[s].token = "refresh")
               => \/ Fetches(s)
                  \/ pc'[s] = "done" /\ resp'[s] = internalError(req[s])
          /\ SetsList(s) => forProject(loc[s].key)' = loc[s].fetched
          /\ SetReturns(s)
               => /\ pc'[s] = loc[s].ret
                  /\ \A v \in TagsOf(loc[s].fetched) :
                       newKey(Append(loc[s].key, v)) \in DOMAIN releases'
          /\ DOMAIN releases \subseteq DOMAIN releases'
          /\ (/\ pc[s] = "latestRead"
              /\ pc'[s] # "latestRead"
              /\ forProject(loc[s].key) # <<>>)
               => resp'[s] = Redirect(URL(req[s].host,
                                          <<LastOf(loc[s].key).tag, "">>, ""))]_vars

\* C17 witness: /v2.0.0/guide.html without the token was answered not found
\* by the lookup (nothing is installed), so the project was indexed without
\* v2.0.0; /latest/ with the token was then redirected to /v2.0.0/.
C17_Witness ==
    \E s, t \in Slots :
        /\ pc[t] = "done"
        /\ req[t] = URL("widget.example.com", <<"v2.0.0", "guide.html">>, "")
        /\ resp[t] = notFound(req[t])
        /\ installed = {}
        /\ pc[s] = "done"
        /\ req[s] = URL("widget.example.com", <<"latest", "">>, "refresh")
        /\ resp[s] = Redirect(URL("widget.example.com", <<"v2.0.0", "">>, ""))

\* the token of the request of slot s is the secret the service was
\* constructed with, and is not empty
TokenMatches(s) ==
    /\ req[s].token # ""
    /\ revision = WithToken
    /\ req[s].token = "refresh"

\* C18: an indexed project is fetched again only for a request whose token
\* is not empty and equals the configured secret; with a wrong token, no
\* token, or any token when the secret is empty, ensureIndexed does what it
\* does without a token: no fetch for an indexed project, the release store
\* unchanged, one fetch for a project that is not indexed.
C18_OnlyMatchingTokenRefreshes ==
    [][\A s \in Slots :
          (EnsureStep(s) /\ ~TokenMatches(s))
            => IF isIndexed(loc[s].key)
               THEN /\ pc'[s] = AfterIndex(req[s])
                    /\ loc'[s] = loc[s]
                    /\ projects' = projects
                    /\ releases' = releases
               ELSE \/ Fetches(s)
                    \/ pc'[s] = "done" /\ resp'[s] = internalError(req[s])]_vars

\* C18 witness: a service constructed without a secret, a request with
\* ?token=refresh past ensureIndexed, and the stored list is not the one
\* upstream has.
C18_Witness ==
    \E s \in Slots :
        /\ revision = WithoutSecret
        /\ pc[s] = "list"
        /\ req[s].token = "refresh"
        /\ isIndexed(loc[s].key)
        /\ TagsOf(forProject(loc[s].key)) # TagsOf(upstream[loc[s].key])

\* C19: a request without a token passes the isIndexed check once; when the
\* project is not indexed at the check it performs one fetch (and stores the
\* result, or fails with the internal error), when it is indexed it
\* performs none; after the fetch it goes on to its handler, and
\* /versions.json is answered only once the project is indexed.
C19_OneFetchWhenUnindexed ==
    [][\A s \in Slots :
          /\ (pc'[s] = "ensure" /\ pc[s] # "ensure")
               => pc[s] \in {"idle", "done"}
          /\ (EnsureStep(s) /\ req[s].token = "")
               => IF isIndexed(loc[s].key)
                  THEN pc'[s] = AfterIndex(req[s]) /\ loc'[s] = loc[s]
                  ELSE \/ Fetches(s)
                       \/ pc'[s] = "done" /\ resp'[s] = internalError(req[s])
          /\ pc[s] \in {"setProjects", "setReleases"}
               => pc'[s] \in {"setProjects", "setReleases", loc[s].ret}
          /\ pc[s] = "setReleases" => loc[s].ret \in {"list", "latestRead"}
          /\ (pc[s] = "list" /\ pc'[s] # "list")
               => /\ isIndexed(loc[s].key)
                  /\ pc'[s] = "done"
                  /\ resp'[s].status = 200]_vars

\* C19 witness: a /versions.json request without a token is storing what
\* its fetch returned for the project that was not indexed.
C19_Witness ==
    \E s \in Slots :
        /\ pc[s] = "setProjects"
        /\ req[s] = URL("widget.example.com", <<"versions.json">>, "")
        /\ loc[s].ret = "list"
        /\ ~isIndexed(loc[s].key)
        /\ Len(loc[s].fetched) = 2

\* C20: /versions.json for a mapped project is answered 200 with a JSON
\* array of one {text, url} entry per release of the list stored, in
\* ascending version order, each url being <host>/<tag>; for a project
\* with no release the array has length 0.
C20_VersionsArray ==
    [][\A s \in Slots :
          (pc[s] = "list" /\ pc'[s] # "list")
            => /\ resp'[s].status = 200
               /\ resp'[s].body.kind = "array"
               /\ Len(resp'[s].body.items) = Len(forProject(loc[s].key))
               /\ \A i \in 1..Len(forProject(loc[s].key)) :
                    resp'[s].body.items[i] =
                      [text |-> forProject(loc[s].key)[i].tag,
                       url  |-> [host |-> req[s].host,
                                 path |-> <<forProject(loc[s].key)[i].tag>>,
                                 token |-> ""]]
               /\ \A i, j \in 1..Len(forProject(loc[s].key)) :
                    i < j => SemverRank(forProject(loc[s].key)[i].tag)
                               < SemverRank(forProject(loc[s].key)[j].tag)]_vars

\* the project of the request slot s is serving or has served
KeyOf(s) == ProjectForHost(req[s].host).key

\* slot s returns from ensureIndexed with the error of fetcher.releases
FetchFails(s) ==
    /\ EnsureStep(s)
    /\ pc'[s] # AfterIndex(req[s])
    /\ ~Fetches(s)

\* C21: on each of the three routes a failed release fetch ends the request
\* with the internal-error redirect in the same step (no second fetch in
\* the request), leaves the release store as it was, so a project that was
\* not indexed stays unindexed, and every later request that finds the
\* project unindexed fetches again.
C21_FetchFailureIsInternalError ==
    [][\A s \in Slots :
          /\ FetchFails(s)
               => /\ pc'[s] = "done"
                  /\ resp'[s] = internalError(req[s])
                  /\ projects' = projects
                  /\ releases' = releases
                  /\ isIndexed(loc[s].key)' = isIndexed(loc[s].key)
          /\ (EnsureStep(s) /\ ~isIndexed(loc[s].key))
               => Fetches(s) \/ FetchFails(s)]_vars

\* C21 witness: the three routes have each answered or are answering: a
\* /latest/ request ended with the internal-error redirect, the project is
\* still not indexed, and a /versions.json request that came for the same
\* project is past its own fetch.
C21_Witness ==
    \E s, t \in Slots :
        /\ pc[t] = "done"
        /\ req[t] = URL("widget.example.com", <<"latest", "">>, "")
        /\ resp[t] = internalError(req[t])
        /\ ~isIndexed(KeyOf(t))
        /\ pc[s] = "setProjects"
        /\ req[s] = URL("widget.example.com", <<"versions.json">>, "")
        /\ loc[s].key = KeyOf(t)

\* slot s takes a step of its handler
Steps(s) == pc'[s] # pc[s]

\* C22: buildDocs returning an error ends the request with the
\* internal-error redirect and adds nothing to the install set, which only
\* ever holds versions whose build succeeded; no failure is remembered: a
\* request for a version that is not installed and has a release goes
\* from the isInstalled check to index.get, os.MkdirAll and buildDocs
\* whatever earlier builds returned.
C22_BuildFailureNotCached ==
    [][\A s \in Slots :
          /\ (pc[s] = "build" /\ Steps(s))
               => \/ /\ pc'[s] = "install"
                     /\ Triple(s) \in built'
                     /\ installed' = installed
                  \/ /\ pc'[s] = "done"
                     /\ resp'[s] = internalError(req[s])
                     /\ built' = built
                     /\ installed' = installed
          /\ installed' \subseteq built'
          /\ (pc[s] = "isInstalled" /\ Steps(s)
                /\ ~isInstalled(loc[s].key, loc[s].version))
               => pc'[s] = "get"
          /\ (pc[s] = "get" /\ Steps(s)
                /\ get(loc[s].key, loc[s].version) # NoRelease)
               => pc'[s] = "mkdir"
          /\ (pc[s] = "mkdir" /\ Steps(s))
               => \/ pc'[s] = "build"
                  \/ pc'[s] = "done" /\ resp'[s] = internalError(req[s])]_vars

\* C22 witness: a request for /v2.0.0/guide.html has ended with the
\* internal-error redirect, v2.0.0 has a release and was never built nor
\* installed, and another request for it is inside buildDocs.
C22_Witness ==
    \E s, t \in Slots :
        /\ pc[t] = "done"
        /\ req[t] = URL("widget.example.com", <<"v2.0.0", "guide.html">>, "")
        /\ resp[t] = internalError(req[t])
        /\ get(KeyOf(t), "v2.0.0") # NoRelease
        /\ built = {}
        /\ installed = {}
        /\ pc[s] = "build"
        /\ Triple(s) = newKey(Append(KeyOf(t), "v2.0.0"))

\* slot s takes or serves a request of the version route and has not passed
\* index.get
BeforeBuild(s) ==
    /\ Route(req'[s]) = "prepare"
    /\ pc[s] \in {"idle", "done", "ensure", "setProjects", "setReleases",
                  "isInstalled", "get"}

\* C23: a request of the version route whose version is not installed and
\* has no release under exactly that tag is answered with the not-found
\* redirect by the index.get step; that step and every earlier step of the
\* request start no build, create no directory (os.MkdirAll is never
\* reached) and leave the install set, the set of built versions and the
\* latest-version cache as they were.
C23_UnknownVersionNotFound ==
    [][\A s \in Slots :
          /\ (pc[s] = "get" /\ Steps(s)
                /\ get(loc[s].key, loc[s].version) = NoRelease)
               => /\ pc'[s] = "done"
                  /\ resp'[s] = notFound(req[s])
          /\ (pc[s] = "get" /\ Steps(s) /\ pc'[s] = "mkdir")
               => get(loc[s].key, loc[s].version).tag = loc[s].version
          /\ (BeforeBuild(s) /\ Steps(s))
               => /\ pc'[s] \notin {"build", "install"}
                  /\ installed' = installed
                  /\ built' = built
                  /\ latestVersions' = latestVersions]_vars

\* C23 witness: /v1.1.0/guide.html was answered with the not-found redirect
\* while the project is indexed, its index has no v1.1.0, and nothing was
\* built or installed.
C23_Witness ==
    \E s \in Slots :
        /\ pc[s] = "done"
        /\ req[s] = URL("widget.example.com", <<"v1.1.0", "guide.html">>, "")
        /\ resp[s] = notFound(req[s])
        /\ isIndexed(KeyOf(s))
        /\ forProject(KeyOf(s)) # <<>>
        /\ get(KeyOf(s), "v1.1.0") = NoRelease
        /\ built = {}
        /\ installed = {}

\* refreshIndex takes the next key of its pass
PassStep == pc[Refresher] = "pass" /\ todo # <<>> /\ todo' # todo

\* C24: a pass of refreshIndex visits every project key the store held
\* when the pass started, once each; a fetch that fails is logged, changes
\* nothing in the store and does not end the pass, which goes on with the
\* next key; a fetch that succeeds returns what upstream has for that key
\* and the list stored under it is replaced; the pass ends only when no
\* key is left.
C24_PassSurvivesFetchFailure ==
    [][/\ (pc[Refresher] = "wait" /\ pc'[Refresher] = "pass")
            => /\ { todo'[i] : i \in 1..Len(todo') } = getProjects
               /\ Len(todo') = Cardinality(getProjects)
       /\ PassStep
            => /\ todo' = Tail(todo)
               /\ pc'[Refresher] \in {"pass", "setProjects"}
               /\ IF pc'[Refresher] = "setProjects"
                  THEN /\ loc'[Refresher].key = Head(todo)
                       /\ loc'[Refresher].fetched = SortByTag(upstream[Head(todo)])
                       /\ loc'[Refresher].failed = loc[Refresher].failed
                  ELSE /\ loc'[Refresher].failed
                            = loc[Refresher].failed \cup {Head(todo)}
                       /\ projects' = projects
                       /\ releases' = releases
       /\ (pc[Refresher] = "pass" /\ pc'[Refresher] = "wait") => todo = <<>>
       /\ SetsList(Refresher)
            => forProject(loc[Refresher].key)' = loc[Refresher].fetched
       /\ SetReturns(Refresher)
            => /\ pc'[Refresher] = "pass"
               /\ todo' = todo
               /\ loc'[Refresher].failed = loc[Refresher].failed]_vars

\* C24 witness: in one pass the fetch of acme/widget has failed, so the
\* store still holds a list for it that is not the one upstream has, and
\* the pass is storing what it fetched for acme/gadget.
C24_Witness ==
    /\ pc[Refresher] = "setProjects"
    /\ loc[Refresher].failed = { <<"acme", "widget">> }
    /\ loc[Refresher].key = <<"acme", "gadget">>
    /\ isIndexed(<<"acme", "widget">>)
    /\ forProject(<<"acme", "widget">>) # fetched(<<"acme", "widget">>)
    /\ forProject(<<"acme", "gadget">>) # loc[Refresher].fetched

\* C25: ManageIndex has returned only if the context was cancelled, and
\* once it has returned it runs no more; once the context is cancelled it
\* eventually returns; as long as the context is not cancelled, each wait
\* of the interval is followed by a pass of refreshIndex.
C25_ManageIndexRunsUntilCancelled ==
    /\ [](pc[Refresher] = "stopped" => cancelled)
    /\ [][pc[Refresher] = "stopped" => pc'[Refresher] = "stopped"]_vars
    /\ (cancelled ~> pc[Refresher] = "stopped")
    /\ ((pc[Refresher] = "wait" /\ ~cancelled)
          ~> (pc[Refresher] = "pass" \/ cancelled))

\* C25 witness: ManageIndex has returned after the cancellation, with a
\* project in the store that its passes had to refresh.
C25_Witness ==
    /\ pc[Refresher] = "stopped"
    /\ cancelled
    /\ isIndexed(<<"acme", "widget">>)
    /\ todo = <<>>

\* the terminal outcomes a response to request r is an instance of
Outcomes(r, response) ==
    { o \in {"json", "versionRedirect", "bare404", "notFound", "internalError"} :
        CASE o = "json" ->
               /\ response.status = 200
               /\ response.location = NoRequest
               /\ response.body.kind \in {"null", "array"}
          [] o = "versionRedirect" ->
               /\ response.status = 307
               /\ response.body = NoBody
               /\ response.location.host = r.host
               /\ IsSemver(Head(response.location.path))
          [] o = "bare404" -> response = bareNotFound
          [] o = "notFound" -> response = notFound(r)
          [] OTHER -> response = internalError(r) }

\* C26: a request that has ended has exactly one of the five terminal
\* outcomes and a request in progress has written nothing; a handler step
\* that ends the request of one slot leaves the other slots where they
\* were, and a slot whose request has ended takes the next request.
C26_OneTerminalOutcome ==
    [][\A s \in Slots :
          /\ pc'[s] = "done" => Cardinality(Outcomes(req'[s], resp'[s])) = 1
          /\ pc'[s] \notin {"idle", "done"} => resp'[s] = NoResponse
          /\ (pc[s] \notin {"idle", "done"} /\ pc'[s] = "done")
               => /\ req'[s] = req[s]
                  /\ \A t \in Slots \ {s} :
                       /\ pc'[t] = pc[t]
                       /\ loc'[t] = loc[t]
                       /\ resp'[t] = resp[t]
          /\ pc[s] = "done"
               => \A r \in FaultRequests : ENABLED Start(s, r)]_vars

\* C26 witness: the /versions.json request of one slot panicked and was
\* answered with the internal-error redirect while the request of the other
\* slot is inside buildDocs, which it goes on with.
C26_Witness ==
    \E s, t \in Slots :
        /\ pc[s] = "done"
        /\ loc[s].failed = { <<"panic">> }
        /\ resp[s] = internalError(req[s])
        /\ req[s] = URL("widget.example.com", <<"versions.json">>, "")
        /\ pc[t] = "build"
        /\ ENABLED BuildReturn(t)

\* the list is in ascending order of semantic version
IsSorted(rels) ==
    \A i, j \in 1..Len(rels) : i < j => ~LessThan(rels[j].tag, rels[i].tag)

AsksBelowMin(s) ==
    /\ minVersion(loc[s].key) # ""
    /\ IsSemver(loc[s].version)
    /\ LessThan(loc[s].version, minVersion(loc[s].key))

\* C28: for a project with a minimum version, after every step (first
\* access, token refresh, periodic pass) the list of forProject has no
\* release below the minimum and get has none for a tag below it; a request
\* for a version below it that is past ensureIndexed is answered with the
\* not-found redirect and reaches neither os.MkdirAll nor buildDocs.
C28_NothingBelowMinVersion ==
    [][/\ \A k \in ProjectKeys :
            minVersion(k) # ""
              => /\ \A i \in 1..Len(forProject(k)') :
                      ~LessThan(forProject(k)'[i].tag, minVersion(k))
                 /\ \A v \in Versions :
                      LessThan(v, minVersion(k)) => get(k, v)' = NoRelease
       /\ \A s \in Slots :
            (AsksBelowMin(s) /\ pc[s] \in {"isInstalled", "get"} /\ Steps(s))
              => \/ pc'[s] = "get"
                 \/ pc'[s] = "done" /\ resp'[s] = notFound(req[s])]_vars

\* C28 witness: upstream has v1.0.0 and v2.0.0 for the project whose
\* minimum version is v1.1.0, the store lists v2.0.0 alone, v2.0.0 was
\* built, and the request for /v1.0.0/guide.html was answered not found.
C28_Witness ==
    \E s \in Slots :
        /\ upstream[<<"acme", "legacy">>] = <<Rel("v1.0.0"), Rel("v2.0.0")>>
        /\ forProject(<<"acme", "legacy">>) = <<Rel("v2.0.0")>>
        /\ built = { <<"acme", "legacy", "v2.0.0">> }
        /\ pc[s] = "done"
        /\ req[s] = URL("legacy.example.com", <<"v1.0.0", "guide.html">>, "")
        /\ resp[s] = notFound(req[s])

\* slot s takes the request r: ServeHTTP is entered
Takes(s, r) ==
    /\ pc[s] \in {"idle", "done"}
    /\ <<pc[s], req[s], resp[s]>>' # <<pc[s], req[s], resp[s]>>
    /\ req'[s] = r

\* C29 as stated: a request for a host without a mapping, or with a
\* repository that is not owner/project, is answered with the not-found
\* redirect at once on each of the three routes, and nothing is fetched,
\* built or changed in the stores; a request for a host given with a port
\* is taken as the request for the host without the port is: it goes on to
\* ensureIndexed for the project of that host.
C29_UnmappedNotFoundPortIgnored ==
    [][\A s \in Slots, r \in HostRequests :
          /\ (Takes(s, r) /\ r.host \in UnmappedHosts)
               => /\ pc'[s] = "done"
                  /\ resp'[s] = notFound(r)
                  /\ <<projects, releases, latestVersions, installed, built>>'
                       = <<projects, releases, latestVersions, installed, built>>
          /\ (Takes(s, r) /\ StripPort(r.host) # r.host)
               => /\ ProjectForHost(StripPort(r.host)).ok => pc'[s] = "ensure"
                  /\ loc'[s].key = ProjectForHost(StripPort(r.host)).key]_vars

\* slot s returns from buildDocs
BuildDocsReturns(s) ==
    /\ pc[s] \in {"build", "tempDir", "unpack", "make", "removeAll"}
    /\ pc'[s] \in {"install", "done"}

\* C30 as stated: on every return of buildDocs that follows the creation of
\* the temporary directory (success, failed extraction, failed build
\* command) os.RemoveAll has been called for it; the return after
\* os.RemoveAll is the successful one whatever os.RemoveAll returned.
C30_TempDirAlwaysRemoved ==
    [][\A s \in Slots :
          BuildDocsReturns(s)
            => /\ loc[s].tmpDir = "created" => pc[s] = "removeAll"
               /\ pc[s] = "removeAll"
                    => /\ pc'[s] = "install"
                       /\ loc'[s].tmpDir \in {"removed", "kept"}
                       /\ Triple(s) \in built']_vars

\* C31: a request for the path / is served as /latest/ is: once the project
\* is indexed with releases, the answer is a redirect to its latest version.
C31_RootServedAsLatest ==
    \A s \in Slots :
        (/\ pc[s] = "done"
         /\ req[s].path = RootPath
         /\ resp[s] # InternalError(req[s])
         /\ forProject(ProjectForHost(req[s].host).key) # <<>>)
            => /\ resp[s].status = 307
               /\ Head(resp[s].location.path)
                    = LastOf(ProjectForHost(req[s].host).key).tag

\* a step of the goroutine of ManageIndex
RefresherSteps ==
    <<pc[Refresher], todo, loc[Refresher]>>'
        # <<pc[Refresher], todo, loc[Refresher]>>

\* the keys of a list of keys
KeysOf(q) == { q[i] : i \in 1..Len(q) }

\* C32: a refresh pass visits the keys the release store held when the pass
\* began, so a pass over an empty store does nothing; its steps add no
\* project key, change the releases of the visited key only, and leave the
\* install tracker and the latest-version cache as they were.
C32_PassTouchesIndexedListsOnly ==
    [][RefresherSteps =>
         /\ DOMAIN projects' = DOMAIN projects
         /\ installed' = installed
         /\ latestVersions' = latestVersions
         /\ pc[Refresher] = "wait" => /\ KeysOf(todo') = getProjects
                                      /\ projects' = projects
                                      /\ releases' = releases
         /\ pc[Refresher] = "pass" =>
              /\ projects' = projects
              /\ releases' = releases
              /\ todo = <<>> => pc'[Refresher] = "wait"
              /\ pc'[Refresher] = "setProjects"
                   => loc'[Refresher].key = Head(todo)
         /\ pc[Refresher] \in {"setProjects", "setReleases"} =>
              /\ loc[Refresher].key \in getProjects
              /\ \A k \in DOMAIN projects :
                   k # newKey(loc[Refresher].key) => projects'[k] = projects[k]
              /\ \A k \in DOMAIN releases' :
                   (k \notin DOMAIN releases \/ releases'[k] # releases[k])
                      => <<k[1], k[2]>> = loc[Refresher].key]_vars

\* a pass has stored a new list for one project while the other project is
\* in no store, and an install record and a cache entry exist
C32_Witness ==
    /\ pc[Refresher] = "pass"
    /\ <<"acme", "widget">> \in getProjects
    /\ <<"acme", "gadget">> \notin getProjects
    /\ Len(forProject(<<"acme", "widget">>)) = 1
    /\ upstream[<<"acme", "widget">>] = forProject(<<"acme", "widget">>)
    /\ installed # {}
    /\ DOMAIN latestVersions # {}

\* a fetch of a refresh pass has returned the releases of key
RefreshFetched(key) ==
    /\ RefreshNext
    /\ pc'[Refresher] = "setProjects"
    /\ loc'[Refresher].key = key

\* C33: if upstream stops changing, the context of ManageIndex is never
\* cancelled and the fetches of the passes for an indexed project succeed
\* again and again, then from some time on forProject of that project is
\* the list upstream holds.
C33_RefreshConverges ==
    \A k \in WidgetKeys :
        (/\ <>[][upstream' = upstream]_vars
         /\ []~cancelled
         /\ []<><<RefreshFetched(k)>>_vars)
            => <>[](isIndexed(k) /\ forProject(k) = upstream[k])

\* C33 witness: after a pass stored what it fetched for the project, the
\* store holds the one release upstream was left with, which is not the
\* list the project was first indexed with.
C33_Witness ==
    /\ pc[Refresher] = "pass"
    /\ ~cancelled
    /\ loc[Refresher].key = <<"acme", "widget">>
    /\ Len(upstream[<<"acme", "widget">>]) = 1
    /\ forProject(<<"acme", "widget">>) = upstream[<<"acme", "widget">>]
    /\ get(<<"acme", "widget">>, "v2.0.0") # NoRelease

\* C34 as stated: the list of a project never goes back to an older
\* snapshot of upstream: once a set has made the second release visible, no
\* set of an overlapping indexing hides it again.
C34_ListNeverRegresses ==
    [][\A k \in WidgetKeys :
          (isIndexed(k) /\ "v2.0.0" \in TagsOf(projects[k]))
            => "v2.0.0" \in TagsOf(projects'[k])]_vars

\* C34 amended: the list in the store is a list upstream held and is the one
\* given to the set that ran last; a release that was visible disappears
\* from it only in the set of an indexing that fetched before the release
\* was published.
C34_LastSetWins ==
    /\ [](\A k \in WidgetKeys :
            isIndexed(k) =>
               projects[k] \in { <<Rel("v1.0.0")>>,
                                 <<Rel("v1.0.0"), Rel("v2.0.0")>> })
    /\ [][\A k \in WidgetKeys :
            (isIndexed(k) /\ projects'[k] # projects[k])
               => \E p \in Procs :
                    /\ SetsList(p)
                    /\ loc[p].key = k
                    /\ projects'[k] = loc[p].fetched
                    /\ (Len(projects'[k]) < Len(projects[k])
                          => loc[p].fetched # upstream[k])]_vars

\* C34 witness: an indexing has stored the list without the second release
\* after another indexing had stored and indexed by tag the list with it.
C34_Witness ==
    \E p \in Procs :
        /\ pc[p] = "setReleases"
        /\ loc[p].key = <<"acme", "widget">>
        /\ forProject(<<"acme", "widget">>) = <<Rel("v1.0.0")>>
        /\ get(<<"acme", "widget">>, "v2.0.0") # NoRelease
        /\ Len(upstream[<<"acme", "widget">>]) = 2

\* the requests that wait for fetcher.releases to return the releases of k
InFlight(k) == { s \in Slots : pc[s] = "fetch" /\ loc[s].key = k }

\* C35 as stated: at most one release fetch for a project is in flight.
C35_OneFetchInFlight ==
    \A k \in ProjectKeys : Cardinality(InFlight(k)) <= 1

\* C35 amended: a request without a token calls fetcher.releases exactly
\* when its own isIndexed check finds the project not indexed, and at most
\* once; the fetches of other requests are not looked at.
C35_FetchPerUnindexedCheck ==
    [][\A s \in Slots :
          /\ (pc[s] = "ensure" /\ pc'[s] # "ensure")
               => /\ pc'[s] = IF isIndexed(loc[s].key)
                              THEN AfterIndex(req[s]) ELSE "fetch"
                  /\ loc'[s] = loc[s]
          /\ (pc'[s] = "fetch" /\ pc[s] # "fetch") => pc[s] = "ensure"
          /\ (pc[s] = "fetch" /\ pc'[s] # "fetch")
               => pc'[s] \in {"setProjects", "done"}
          /\ (pc'[s] = "ensure" /\ pc[s] # "ensure")
               => pc[s] \in {"idle", "done"}]_vars

\* C35 witness: two requests wait for the releases of the same project,
\* which is not indexed.
C35_Witness ==
    /\ Cardinality(InFlight(<<"acme", "widget">>)) = 2
    /\ ~isIndexed(<<"acme", "widget">>)

\* goroutine p is inside a blocking call
InBlockingCall(p) ==
    loc[p].ops # <<>> /\ Head(loc[p].ops).op = "blocking"

\* goroutine p waits in Lock for a mutex another goroutine holds
WaitsForLock(p) ==
    /\ loc[p].ops # <<>>
    /\ Head(loc[p].ops).op = "Lock"
    /\ IsLocked(Head(loc[p].ops).on)

\* C36: a goroutine holds no mutex of the index while it is in a release
\* fetch, a download, a directory creation or a build, and never more than
\* one mutex; a mutex has one holder, none is kept at the return of a
\* handler, and as long as a goroutine has something to do one of them can
\* take a step (no deadlock).
C36_NoLockAcrossBlockingCalls ==
    /\ \A p \in Procs : InBlockingCall(p) => loc[p].held = {}
    /\ \A p \in Procs : Cardinality(loc[p].held) <= 1
    /\ \A p \in Procs : loc[p].ops = <<>> => loc[p].held = {}
    /\ \A p, q \in Procs : p # q => loc[p].held \cap loc[q].held = {}
    /\ (\E p \in Procs : loc[p].ops # <<>>)
         => \E p \in Procs : loc[p].ops # <<>> /\ ~WaitsForLock(p)

\* C36 witness: a request is inside the build command while another request
\* is inside index.set with projectsMut and the refresh loop waits for that
\* mutex.
C36_Witness ==
    \E p, q \in Slots :
        /\ InBlockingCall(p)
        /\ Head(loc[p].ops).on = "cmd.CombinedOutput"
        /\ loc[q].held = {"projectsMut"}
        /\ Head(loc[q].ops) = Unlock("projectsMut")
        /\ Len(loc[q].ops) = Len(setOps) - 1 + Len(forProjectOps)
        /\ WaitsForLock(Refresher)

\* C37: buildDocs is entered, and install called, only for a version that
\* is the tag of a release of the by-tag index; so every install record is
\* the key of such a release, and with semantic versions as the only tags
\* indexed no install record has another version and no request is answered
\* with the bare 404.
C37_InstalledAreIndexedTags ==
    /\ [](\A k \in installed :
            /\ k \in DOMAIN releases
            /\ releases[k].tag = k[3]
            /\ IsSemver(k[3]))
    /\ [](\A s \in Slots : resp[s] # bareNotFound)
    /\ [][installed' # installed
            => \E s \in Slots :
                 /\ pc[s] = "install"
                 /\ installed' = installed \cup {Triple(s)}]_vars
    /\ [][\A s \in Slots :
            (\/ pc'[s] \in {"build", "install"}
             \/ pc[s] = "install" /\ pc'[s] = "done")
               => /\ get(loc[s].key, loc[s].version) # NoRelease
                  /\ loc[s].release = get(loc[s].key, loc[s].version)
                  /\ loc[s].release.tag = loc[s].version]_vars

\* C37 witness: a version is installed that upstream has withdrawn and the
\* release list has lost, and a request for a file at the root has been
\* answered with the not-found redirect.
C37_Witness ==
    \E s \in Slots :
        /\ pc[s] = "done"
        /\ req[s].path = <<"guide.html">>
        /\ resp[s] = NotFound(req[s])
        /\ <<"acme", "widget", "v2.0.0">> \in installed
        /\ "v2.0.0" \notin TagsOf(forProject(<<"acme", "widget">>))

\* C38: a set of no release makes the project indexed with the empty list;
\* a request without a token that finds the project indexed does not fetch,
\* whatever the list holds, and its /latest/ is answered not found while the
\* list is empty; every pass of refreshIndex visits every indexed project,
\* the ones with the empty list included, and a list that was empty gets
\* releases only in the set of a pass or of a request that had fetched
\* before the project was indexed.
C38_EmptyListIsIndexed ==
    [][/\ \A p \in Procs :
            (SetsList(p) /\ loc[p].fetched = <<>>)
               => /\ newKey(loc[p].key) \in DOMAIN projects'
                  /\ projects'[newKey(loc[p].key)] = <<>>
       /\ \A s \in Slots :
            (EnsureStep(s) /\ isIndexed(loc[s].key))
               => /\ pc'[s] = AfterIndex(req[s])
                  /\ loc'[s] = loc[s]
                  /\ projects' = projects
       /\ \A s \in Slots :
            (pc[s] = "latestRead" /\ pc'[s] # "latestRead"
               /\ forProject(loc[s].key) = <<>>)
               => pc'[s] = "done" /\ resp'[s] = notFound(req[s])
       /\ (pc[Refresher] = "wait" /\ pc'[Refresher] = "pass")
            => KeysOf(todo') = { k \in ProjectKeys : isIndexed(k) }
       /\ \A k \in ProjectKeys :
            (isIndexed(k) /\ projects[k] = <<>> /\ projects'[k] # <<>>)
               => \E p \in Procs :
                    /\ SetsList(p)
                    /\ loc[p].key = k
                    /\ p \in Slots => loc[p].ret = AfterIndex(req[p])]_vars

\* C38 witness: the project is indexed with no release while upstream has
\* two, a /latest/ request made since has been answered not found, and the
\* pass that is running has the project to visit.
C38_Witness ==
    \E s \in Slots :
        /\ isIndexed(<<"acme", "widget">>)
        /\ forProject(<<"acme", "widget">>) = <<>>
        /\ Len(upstream[<<"acme", "widget">>]) = 2
        /\ pc[s] = "done"
        /\ req[s].path = <<"latest", "">>
        /\ resp[s] = notFound(req[s])
        /\ \A q \in Procs : pc[q] \notin {"setProjects", "setReleases"}
        /\ pc[Refresher] = "pass"
        /\ todo = << <<"acme", "widget">> >>

\* C39: on the version route trySetLatestVersion has returned before
\* os.MkdirAll and buildDocs are called, and a failure of either leaves the
\* cache as trySet left it; the tag trySet writes to the cache is the tag
\* of a release the by-tag index of the project holds at that time.
C39_TrySetBeforeBuild ==
    /\ [](\A s \in Slots :
            pc[s] \in {"trySet", "trySetWrite", "mkdir", "build"}
               => /\ loc[s].release.tag = loc[s].version
                  /\ get(loc[s].key, loc[s].version) = loc[s].release)
    /\ [][\A s \in Slots :
            /\ (pc'[s] = "mkdir" /\ pc[s] # "mkdir")
                 => pc[s] \in {"trySet", "trySetWrite"}
            /\ (pc'[s] = "trySet" /\ pc[s] # "trySet") => pc[s] = "get"
            /\ (pc'[s] = "build" /\ pc[s] # "build") => pc[s] = "mkdir"
            /\ (pc[s] = "trySetWrite" /\ pc'[s] # "trySetWrite")
                 => /\ pc'[s] = "mkdir"
                    /\ latestVersions'[newKey(loc[s].key)].version
                         = loc[s].release.tag
                    /\ get(loc[s].key, loc[s].release.tag) # NoRelease
            /\ (pc[s] \in {"mkdir", "build"} /\ pc'[s] = "done")
                 => /\ resp'[s] = InternalError(req[s])
                    /\ latestVersions' = latestVersions
                    /\ installed' = installed]_vars

\* C39 witness: the request for v2.0.0 has failed after trySet, v2.0.0 is
\* not installed, the cache holds v2.0.0 and a /latest/ request has been
\* redirected to it.
C39_Witness ==
    \E s, t \in Slots :
        /\ pc[s] = "done"
        /\ req[s].path = <<"v2.0.0", "guide.html">>
        /\ resp[s] = InternalError(req[s])
        /\ <<"acme", "widget", "v2.0.0">> \notin installed
        /\ latestVersion(<<"acme", "widget">>).ok
        /\ latestVersion(<<"acme", "widget">>).version = "v2.0.0"
        /\ pc[t] = "done"
        /\ req[t].path = <<"latest", "">>
        /\ resp[t] = redirectToVersion(req[t], "v2.0.0")

\* C40 as stated: v2.0.0 is the latest release of the store since the first
\* hour, so more than one lifetime later no fresh entry of the cache, from
\* which a /latest/ request made then is answered, holds a lower version.
C40_StaleAtMostOneLifetime ==
    \A k \in WidgetKeys :
        (/\ now > latestVersionLifetime
         /\ Settled(k)
         /\ latestVersion(k).ok)
            => ~LessThan(latestVersion(k).version, "v2.0.0")

\* C40 amended: a /latest/ request is answered from the cache only while
\* the entry is younger than the lifetime, counted from the write of the
\* entry: every write of the cache, by setLatestVersion or by a trySet that
\* advances it, stamps the entry with the time of the write, whatever the
\* store held when the tag was read.
C40_FreshSinceLastWrite ==
    /\ [](\A k \in DOMAIN latestVersions : latestVersions[k].cachedAt <= now)
    /\ [][/\ \A k \in DOMAIN latestVersions' :
               (k \notin DOMAIN latestVersions
                  \/ latestVersions'[k] # latestVersions[k])
                 => /\ latestVersions'[k].cachedAt = now
                    /\ \E s \in Slots :
                         /\ pc[s] \in {"latestSet", "trySetWrite"}
                         /\ pc'[s] # pc[s]
                         /\ newKey(loc[s].key) = k
                         /\ latestVersions'[k].version = loc[s].release.tag
          /\ \A s \in Slots :
               (pc[s] = "latestCache" /\ pc'[s] = "done")
                 => /\ newKey(loc[s].key) \in DOMAIN latestVersions
                    /\ now < latestVersions[newKey(loc[s].key)].cachedAt
                               + latestVersionLifetime
                    /\ resp'[s] = redirectToVersion(req[s],
                                    latestVersions[newKey(loc[s].key)].version)
          /\ \A s \in Slots :
               (pc[s] = "latestCache" /\ pc'[s] # "latestCache"
                  /\ newKey(loc[s].key) \in DOMAIN latestVersions
                  /\ now >= latestVersions[newKey(loc[s].key)].cachedAt
                               + latestVersionLifetime)
                 => pc'[s] = "ensure"]_vars

\* C40 witness: two hours after v2.0.0 became the latest release of the
\* store a /latest/ request is redirected to v1.0.0 from a fresh entry.
C40_Witness ==
    \E s \in Slots :
        /\ now = 2
        /\ Settled(<<"acme", "widget">>)
        /\ <<"acme", "widget">> \in DOMAIN latestVersions
        /\ latestVersions[<<"acme", "widget">>]
             = [cachedAt |-> 2, version |-> "v1.0.0"]
        /\ pc[s] = "done"
        /\ req[s].path = <<"latest", "">>
        /\ resp[s] = redirectToVersion(req[s], "v1.0.0")
        /\ \A t \in Slots : pc[t] = "done"

====
